---- MODULE Spec2Model ----
(***************************************************************************)
(* Model of the chipsum session verifier: seed commitments, the Mulberry32 *)
(* generator, the layered price engine, the game engine, session replay    *)
(* and the verification verdict.                                           *)
(*                                                                         *)
(* Number representation.                                                  *)
(*  - Integers that the source treats with 32-bit operators (seeds, PRNG   *)
(*    state) are "wide" numbers <<hi, lo>> meaning hi * 65536 + lo with    *)
(*    lo in 0..65535.  hi is unbounded, so a wide number is a JavaScript   *)
(*    integer-valued Number; ToInt32 / ToUint32 are the conversions the    *)
(*    bit operators apply.                                                 *)
(*  - IEEE doubles are fixed point, truncated toward zero after every      *)
(*    multiplication or division: money and prices in units of 1/MONEY,    *)
(*    dimensionless quantities (rates, rolls, momentum) in units of        *)
(*    1/RATE, leverage and percentages in units of 1/MILLI.                *)
(***************************************************************************)
EXTENDS Integers, Sequences, FiniteSets, TLC

VARIABLES
  input,    \* the VerificationInput under verification (Null in the engine specification)
  eng,      \* the GameEngine object: [state: GameState, rng: the five PRNG states]
  ctl,      \* replaySession's locals: pc, sortedActions, actionIndex, counters, actionErrors
  twin,     \* a second, independent replaySession invocation on the same input
  result,   \* the VerificationResult once verifySession has returned, else Null
  last      \* history: the operation performed by the last step

vars == <<input, eng, ctl, twin, result, last>>

\* an absent object (null / undefined) and an absent number
Null == [null |-> TRUE]
NoNumber == <<>>

\* ------------------------------------------------------------------------
\* Fixed-point scales
\* ------------------------------------------------------------------------
MONEY == 10000
RATE == 1000000
MILLI == 1000

Abs(x) == IF x < 0 THEN -x ELSE x
Sgn(x) == IF x < 0 THEN -1 ELSE IF x > 0 THEN 1 ELSE 0
Max(a, b) == IF a >= b THEN a ELSE b
Min(a, b) == IF a <= b THEN a ELSE b

\* floor(a * b / c) and the remainder for naturals a, b and c > 0, computed
\* bit by bit over b so that no intermediate exceeds the 31-bit range.
RECURSIVE MulDivNat(_, _, _)
MulDivNat(a, b, c) ==
  IF b = 0 THEN <<0, 0>>
  ELSE LET h == MulDivNat(a, b \div 2, c)
           odd == (b % 2 = 1)
           r2 == 2 * h[2] + (IF odd THEN a % c ELSE 0)
       IN <<2 * h[1] + (IF odd THEN a \div c ELSE 0) + r2 \div c, r2 % c>>

\* a * b / c truncated toward zero (the fixed-point product or quotient).
MulDiv(a, b, c) ==
  LET x == Abs(a)
      y == Abs(b)
      q == IF x = 0 \/ y = 0 THEN 0
           ELSE IF x <= 2147483647 \div y THEN (x * y) \div c
           ELSE IF x >= y THEN MulDivNat(x, y, c)[1] ELSE MulDivNat(y, x, c)[1]
  IN Sgn(a) * Sgn(b) * q

\* ------------------------------------------------------------------------
\* Wide numbers and the 32-bit operators of the source language
\* ------------------------------------------------------------------------
W16 == 65536

Norm(h, l) == <<h + (l \div W16), l % W16>>
Wide(n) == Norm(0, n)
WAdd(a, b) == Norm(a[1] + b[1], a[2] + b[2])
WSub(a, b) == Norm(a[1] - b[1], a[2] - b[2])
WLess(a, b) == a[1] < b[1] \/ (a[1] = b[1] /\ a[2] < b[2])

\* x >>> 0 and x | 0
ToUint32(n) == <<n[1] % W16, n[2]>>
ToInt32(n) == <<((n[1] + 32768) % W16) - 32768, n[2]>>

Xor4 == [a \in 0..15, b \in 0..15 |->
          LET B(x, i) == (x \div (2 ^ i)) % 2
          IN ((B(a, 0) + B(b, 0)) % 2) + 2 * ((B(a, 1) + B(b, 1)) % 2)
             + 4 * ((B(a, 2) + B(b, 2)) % 2) + 8 * ((B(a, 3) + B(b, 3)) % 2)]

Xor16(a, b) ==
  Xor4[a % 16, b % 16]
  + 16 * Xor4[(a \div 16) % 16, (b \div 16) % 16]
  + 256 * Xor4[(a \div 256) % 16, (b \div 256) % 16]
  + 4096 * Xor4[a \div 4096, b \div 4096]

Or16(a, b) == (a + b + Xor16(a, b)) \div 2

\* a ^ b
WXor(a, b) ==
  LET u == ToUint32(a)
      v == ToUint32(b)
  IN ToInt32(<<Xor16(u[1], v[1]), Xor16(u[2], v[2])>>)

\* a | k for a constant 0 <= k < 65536
WOrSmall(a, k) ==
  LET u == ToUint32(a)
  IN ToInt32(<<u[1], Or16(u[2], k)>>)

\* a >>> k for 1 <= k <= 15
WUshr(a, k) ==
  LET u == ToUint32(a)
      p == 2 ^ k
  IN <<u[1] \div p, ((u[1] % p) * W16 + u[2]) \div p>>

\* a << k for 1 <= k <= 15
WShl(a, k) ==
  LET u == ToUint32(a)
      p == 2 ^ k
  IN ToInt32(Norm(u[1] * p, u[2] * p))

\* (x * y) mod 65536 for 16-bit x, y
MulMod16(x, y) == ((((x \div 256) * y) % W16) * 256 + (x % 256) * y) % W16

\* Math.imul(a, b): the low 32 bits of the product, as a signed value
Imul(a, b) ==
  LET u == ToUint32(a)
      v == ToUint32(b)
      p1 == (u[2] \div 256) * v[2]
      low == WAdd(<<p1 \div 256, (p1 % 256) * 256>>, Wide((u[2] % 256) * v[2]))
      cross == (MulMod16(u[1], v[2]) + MulMod16(u[2], v[1])) % W16
  IN ToInt32(<<low[1] + cross, low[2]>>)

\* ------------------------------------------------------------------------
\* SeededRNG (Mulberry32)
\* ------------------------------------------------------------------------
MulberryIncrement == <<27947, 31221>>   \* 0x6d2b79f5

\* constructor: state = seed >>> 0, and 1 when that is 0
RngNew(seed) ==
  LET s == ToUint32(seed)
  IN IF s = <<0, 0>> THEN <<0, 1>> ELSE s

\* the state after next(): this.state += 0x6d2b79f5 (a Number addition)
RngAdvance(st) == WAdd(st, MulberryIncrement)

\* t = Math.imul(t ^ (t >>> 15), t | 1)
MulberryMix1(t) == Imul(WXor(t, WUshr(t, 15)), WOrSmall(t, 1))

\* t ^= t + Math.imul(t ^ (t >>> 7), t | 61)
MulberryMix2(t) == WXor(t, WAdd(t, Imul(WXor(t, WUshr(t, 7)), WOrSmall(t, 61))))

\* (t ^ (t >>> 14)) >>> 0
MulberryMix3(t) == ToUint32(WXor(t, WUshr(t, 14)))

\* the 32-bit output word of next() computed from the advanced state
RngWord(st1) == MulberryMix3(MulberryMix2(MulberryMix1(st1)))

\* word / 4294967296 in units of 1/RATE
RollOf(w) == MulDiv(w[1], RATE, W16) + MulDiv(w[2], RATE, W16) \div W16

\* next(): <<value in [0, 1) in units of 1/RATE, new state>>
RngNext(st) ==
  LET st1 == RngAdvance(st)
  IN <<RollOf(RngWord(st1)), st1>>

\* hashSeed(seed, label): fold ((hash << 5) - hash + c) | 0, then >>> 0.
\* Every iteration leaves an int32 in hash; testing that before the next
\* iteration also keeps the evaluation of the fold iterative.
RECURSIVE HashFold(_, _, _)
HashFold(hash, label, i) ==
  IF i > Len(label) THEN hash
  ELSE LET next == ToInt32(WAdd(WSub(WShl(hash, 5), hash), Wide(label[i])))
       IN IF next = ToInt32(next) THEN HashFold(next, label, i + 1) ELSE NoNumber

\* fault injection: the folded hash returned as the signed value
HashSeedLabelSigned(seed, label) == HashFold(seed, label, 1)

HashSeedLabel(seed, label) == ToUint32(HashFold(seed, label, 1))

LabelSign == <<115, 105, 103, 110>>
LabelMagnitude == <<109, 97, 103, 110, 105, 116, 117, 100, 101>>
LabelVolatility == <<118, 111, 108, 97, 116, 105, 108, 105, 116, 121>>
LabelMomentum == <<109, 111, 109, 101, 110, 116, 117, 109>>
LabelTurbo == <<116, 117, 114, 98, 111>>


\* ------------------------------------------------------------------------
\* Game constants (constants.ts), in fixed point
\* ------------------------------------------------------------------------
SPREAD_RATE == 5000                 \* 0.005 in units of 1/RATE
FUNDING_RATE_PER_HOUR == 100        \* 0.10 in units of 1/MILLI
TICKS_PER_HOUR == 36000
TICKS_PER_SECOND == 10
SIMPLE_TURBO_COST_RATE == 10000     \* 0.01 in units of 1/RATE
SHIELD_FLAT_RATE == 6600            \* 0.0066 in units of 1/RATE
SHIELD_TICKS_PER_BUY == 10
TURBO_LOSS_PREMIUM == 20000         \* 0.02 in units of 1/RATE
OptionEdgeRate == 20000             \* DEFAULT_HOUSE_EDGE.optionEdgeRate = 0.02
EdgeEarnRate == 200000              \* DEFAULT_TURBO_POINTS.edgeEarnRate = 0.20

\* positionNotional * FUNDING_RATE_PER_TICK, the rate being
\* FUNDING_RATE_PER_HOUR / TICKS_PER_HOUR
FundingCost(notional) == MulDiv(notional, FUNDING_RATE_PER_HOUR, TICKS_PER_HOUR * MILLI)

calculateEdgePoints(edgePaid) == MulDiv(edgePaid, EdgeEarnRate, RATE)
calculateOptionEdge(premium) == MulDiv(premium, OptionEdgeRate, RATE)

\* ------------------------------------------------------------------------
\* DEFAULT_LAYER_CONFIG, in units of 1/RATE
\* ------------------------------------------------------------------------
SignBias == 500000
BaseMagnitudeMin == 500
BaseMagnitudeMax == 2500
VolatilityBase == 1000000
VolatilitySpikeProbability == 20000
VolatilitySpikeMin == 2000000
VolatilitySpikeMax == 4000000
MomentumStrength == 150000
MomentumDecay == 920000
ReversionStrength == 30000
ReversionHalfLife == 500
DriftCorrection == -8
PriceFloor == 100                   \* Math.max(0.01, ...) in units of 1/MONEY
TurboTicks == 10
TurboUpPerTick == 1009577           \* Math.pow(1.10, 1 / 10)
TurboDownPerTick == 989519          \* Math.pow(0.90, 1 / 10)

\* ------------------------------------------------------------------------
\* LayeredPriceEngine
\* ------------------------------------------------------------------------
\* constructor: five generators seeded from the master seed and a label
PriceEngineNew(masterSeed) ==
  [sign       |-> RngNew(HashSeedLabel(masterSeed, LabelSign)),
   magnitude  |-> RngNew(HashSeedLabel(masterSeed, LabelMagnitude)),
   volatility |-> RngNew(HashSeedLabel(masterSeed, LabelVolatility)),
   momentum   |-> RngNew(HashSeedLabel(masterSeed, LabelMomentum)),
   turbo      |-> RngNew(HashSeedLabel(masterSeed, LabelTurbo))]

createInitialState(startPrice) ==
  [price |-> startPrice, tick |-> 0, meanPrice |-> startPrice, momentum |-> 0,
   lastSign |-> 0, inVolatilitySpike |-> FALSE,
   turboActive |-> FALSE, turboTicksRemaining |-> 0, turboDirection |-> 1]

\* range(min, max) applied to a roll
RangeOf(roll, lo, hi) == lo + MulDiv(roll, hi - lo, RATE)

\* fault injection: a turbo tick that multiplies by the per-tick rate r
\* instead of 1 + r
NextTickTurboByRate(ls, rng) ==
  LET perTickMultiplier == IF ls.turboDirection = 1 THEN TurboUpPerTick ELSE TurboDownPerTick
      newPrice == MulDiv(ls.price, perTickMultiplier - RATE, RATE)
      newTicksRemaining == ls.turboTicksRemaining - 1
  IN [newPrice |-> newPrice,
      newState |-> [ls EXCEPT !.price = newPrice,
                              !.tick = ls.tick + 1,
                              !.turboTicksRemaining = newTicksRemaining,
                              !.turboActive = (newTicksRemaining > 0)],
      rng |-> rng]

\* fault injection: a turbo tick that draws its direction again
NextTickTurboDrawing(ls, rng) ==
  LET draw == RngNext(rng.turbo)
      perTickMultiplier == IF draw[1] < RATE \div 2 THEN TurboUpPerTick ELSE TurboDownPerTick
      newPrice == MulDiv(ls.price, perTickMultiplier, RATE)
      newTicksRemaining == ls.turboTicksRemaining - 1
  IN [newPrice |-> newPrice,
      newState |-> [ls EXCEPT !.price = newPrice,
                              !.tick = ls.tick + 1,
                              !.turboTicksRemaining = newTicksRemaining,
                              !.turboActive = (newTicksRemaining > 0)],
      rng |-> [rng EXCEPT !.turbo = draw[2]]]

\* fault injection: a turbo tick that also moves the slow average of the price
NextTickTurboMeanTracked(ls, rng) ==
  LET perTickMultiplier == IF ls.turboDirection = 1 THEN TurboUpPerTick ELSE TurboDownPerTick
      newPrice == MulDiv(ls.price, perTickMultiplier, RATE)
      newTicksRemaining == ls.turboTicksRemaining - 1
  IN [newPrice |-> newPrice,
      newState |-> [ls EXCEPT !.price = newPrice,
                              !.tick = ls.tick + 1,
                              !.meanPrice = MulDiv(ls.meanPrice, ReversionHalfLife - 1, ReversionHalfLife)
                                            + MulDiv(newPrice, 1, ReversionHalfLife),
                              !.turboTicksRemaining = newTicksRemaining,
                              !.turboActive = (newTicksRemaining > 0)],
      rng |-> rng]

\* the turbo override branch of nextTick
NextTickTurbo(ls, rng) ==
  LET perTickMultiplier == IF ls.turboDirection = 1 THEN TurboUpPerTick ELSE TurboDownPerTick
      newPrice == MulDiv(ls.price, perTickMultiplier, RATE)
      newTicksRemaining == ls.turboTicksRemaining - 1
  IN [newPrice |-> newPrice,
      newState |-> [ls EXCEPT !.price = newPrice,
                              !.tick = ls.tick + 1,
                              !.turboTicksRemaining = newTicksRemaining,
                              !.turboActive = (newTicksRemaining > 0)],
      rng |-> rng]

\* range(spikeMin, spikeMax) on a draw of the volatility stream
SpikeMultiplier(draw) ==
  [multiplier |-> RangeOf(draw[1], VolatilitySpikeMin, VolatilitySpikeMax), state |-> draw[2]]

\* fault injection: a spike that takes its multiplier from the roll of the
\* chance draw instead of drawing again
AfterChanceSingleDraw(draw) ==
  IF draw[1] < VolatilitySpikeProbability
  THEN SpikeMultiplier(draw)
  ELSE [multiplier |-> VolatilityBase, state |-> draw[2]]

\* chance(spikeProbability) came out as draw: a spike takes a second draw
AfterChance(draw) ==
  IF draw[1] < VolatilitySpikeProbability
  THEN SpikeMultiplier(RngNext(draw[2]))
  ELSE [multiplier |-> VolatilityBase, state |-> draw[2]]

\* the volatility layer: the multiplier and the stream's new state; the
\* chance draw is taken only when not already in a spike
VolatilityLayer(ls, st) ==
  IF ls.inVolatilitySpike THEN SpikeMultiplier(RngNext(st)) ELSE AfterChance(RngNext(st))

\* the layered branch of nextTick, given the draws of the four streams
LayeredTick(ls, rng, signDraw, magDraw, vol, momDraw) ==
  LET sign == IF signDraw[1] < SignBias THEN 1 ELSE -1
      baseMagnitude == RangeOf(magDraw[1], BaseMagnitudeMin, BaseMagnitudeMax)
      momentumNoise == (momDraw[1] - RATE \div 2) \div 10
      newMomentum == MulDiv(ls.momentum, MomentumDecay, RATE)
                     + ls.lastSign * MomentumStrength + momentumNoise
      momentumContribution == MulDiv(newMomentum, baseMagnitude, RATE)
      deviation == MulDiv(ls.price - ls.meanPrice, RATE, ls.meanPrice)
      reversionContribution == MulDiv(MulDiv(-deviation, ReversionStrength, RATE), baseMagnitude, RATE)
      signedMove == MulDiv(sign * baseMagnitude, vol.multiplier, RATE)
      totalDelta == signedMove + momentumContribution + reversionContribution + DriftCorrection
      newPrice == Max(PriceFloor, MulDiv(ls.price, RATE + totalDelta, RATE))
      newMeanPrice == MulDiv(ls.meanPrice, ReversionHalfLife - 1, ReversionHalfLife)
                      + MulDiv(newPrice, 1, ReversionHalfLife)
  IN [newPrice |-> newPrice,
      newState |-> [price |-> newPrice, tick |-> ls.tick + 1, meanPrice |-> newMeanPrice,
                    momentum |-> newMomentum, lastSign |-> sign, inVolatilitySpike |-> FALSE,
                    turboActive |-> ls.turboActive,
                    turboTicksRemaining |-> ls.turboTicksRemaining,
                    turboDirection |-> ls.turboDirection],
      rng |-> [rng EXCEPT !.sign = signDraw[2], !.magnitude = magDraw[2],
                          !.volatility = vol.state, !.momentum = momDraw[2]]]

NextTickNormal(ls, rng) ==
  LayeredTick(ls, rng, RngNext(rng.sign), RngNext(rng.magnitude),
              VolatilityLayer(ls, rng.volatility), RngNext(rng.momentum))

nextTick(ls, rng) ==
  IF ls.turboActive /\ ls.turboTicksRemaining > 0
  THEN NextTickTurbo(ls, rng)
  ELSE NextTickNormal(ls, rng)

\* fault injection: a turbo that starts with its flag left unset
TurboStartedInactive(ls, rng, draw) ==
  [newState |-> [ls EXCEPT !.turboTicksRemaining = TurboTicks,
                           !.turboDirection = IF draw[1] < RATE \div 2 THEN 1 ELSE -1],
   rng |-> [rng EXCEPT !.turbo = draw[2]]]

\* startTurbo, given the draw getNextTurboDirection took from the turbo stream
TurboStarted(ls, rng, draw) ==
  [newState |-> [ls EXCEPT !.turboActive = TRUE,
                           !.turboTicksRemaining = TurboTicks,
                           !.turboDirection = IF draw[1] < RATE \div 2 THEN 1 ELSE -1],
   rng |-> [rng EXCEPT !.turbo = draw[2]]]

\* fault injection: a turbo direction drawn from the sign stream
startTurboFromSignStream(ls, rng) ==
  LET draw == RngNext(rng.sign)
  IN [newState |-> [ls EXCEPT !.turboActive = TRUE,
                              !.turboTicksRemaining = TurboTicks,
                              !.turboDirection = IF draw[1] < RATE \div 2 THEN 1 ELSE -1],
      rng |-> [rng EXCEPT !.sign = draw[2]]]

startTurbo(ls, rng) == TurboStarted(ls, rng, RngNext(rng.turbo))

\* ------------------------------------------------------------------------
\* Position math and option pricing
\* ------------------------------------------------------------------------
calculateLeveragedPnL(entryPrice, currentPrice, direction, size, leverage) ==
  LET priceChange == MulDiv(currentPrice - entryPrice, RATE, entryPrice)
      multiplier == IF direction = "long" THEN 1 ELSE -1
  IN MulDiv(MulDiv(size, priceChange, RATE) * multiplier, leverage, MILLI)

isPositionLiquidated(entryPrice, currentPrice, direction, size, leverage, cumulativeFunding) ==
  LET pricePnL == calculateLeveragedPnL(entryPrice, currentPrice, direction, size, leverage)
      equity == size + pricePnL - cumulativeFunding
  IN equity <= 0

\* STRIKE_DISTANCES in thousandths of a percent; 0 stands for a missing entry
STRIKE_DISTANCES(durationSeconds, multiplier) ==
  LET row == CASE durationSeconds = 1 -> <<20, 694, 1052, 1422, 1880>>
               [] durationSeconds = 5 -> <<59, 2338, 3535, 4791, 6351>>
               [] durationSeconds = 30 -> <<213, 6446, 9705, 13243, 17644>>
               [] durationSeconds = 60 -> <<253, 9191, 13828, 18823, 25346>>
               [] durationSeconds = 300 -> <<587, 20263, 30162, 41016, 59495>>
               [] OTHER -> <<0, 0, 0, 0, 0>>
  IN CASE multiplier = 2 -> row[1]
       [] multiplier = 5 -> row[2]
       [] multiplier = 10 -> row[3]
       [] multiplier = 25 -> row[4]
       [] multiplier = 100 -> row[5]
       [] OTHER -> 0

calculateOptionStrike(currentPrice, direction, multiplier, durationSeconds) ==
  LET strikePercent == STRIKE_DISTANCES(durationSeconds, multiplier)
      strikeDistance == strikePercent * 10      \* strikePercent / 100 in units of 1/RATE
  IN IF strikePercent = 0 THEN currentPrice
     ELSE IF direction = "call" THEN MulDiv(currentPrice, RATE + strikeDistance, RATE)
     ELSE MulDiv(currentPrice, RATE - strikeDistance, RATE)

\* The repository holds a second copy of the option pricing module, with
\* recalibrated tables and a straddle table.  STRIKE_DISTANCES and
\* STRADDLE_STRIKE_DISTANCES of that copy, in thousandths of a percent; 0
\* stands for a missing entry
RecalibratedStrikeDistances(isStraddle, durationSeconds, multiplier) ==
  LET row == IF isStraddle
             THEN CASE durationSeconds = 1 -> <<16, 1138, 1627, 2134, 2691>>
                    [] durationSeconds = 5 -> <<40, 2742, 4112, 5537, 7431>>
                    [] durationSeconds = 30 -> <<185, 6663, 10007, 13715, 17986>>
                    [] durationSeconds = 60 -> <<280, 9137, 13850, 19112, 25203>>
                    [] durationSeconds = 300 -> <<784, 20989, 30378, 40565, 57014>>
                    [] OTHER -> <<0, 0, 0, 0, 0>>
             ELSE CASE durationSeconds = 1 -> <<900, 1625, 2017, 2429, 2950>>
                    [] durationSeconds = 5 -> <<1594, 3890, 5108, 6490, 8287>>
                    [] durationSeconds = 30 -> <<1753, 8320, 11559, 15233, 19310>>
                    [] durationSeconds = 60 -> <<2202, 10754, 15552, 20416, 26460>>
                    [] durationSeconds = 300 -> <<2930, 22305, 31479, 42280, 63792>>
                    [] OTHER -> <<0, 0, 0, 0, 0>>
  IN CASE multiplier = 2 -> row[1]
       [] multiplier = 5 -> row[2]
       [] multiplier = 10 -> row[3]
       [] multiplier = 25 -> row[4]
       [] multiplier = 100 -> row[5]
       [] OTHER -> 0

\* calculateOptionStrike of the second copy
calculateOptionStrikeRecalibrated(currentPrice, direction, multiplier, durationSeconds, isStraddle) ==
  LET strikePercent == RecalibratedStrikeDistances(isStraddle, durationSeconds, multiplier)
      strikeDistance == strikePercent * 10      \* strikePercent / 100 in units of 1/RATE
  IN IF strikePercent = 0 THEN currentPrice
     ELSE IF direction = "call" THEN MulDiv(currentPrice, RATE + strikeDistance, RATE)
     ELSE MulDiv(currentPrice, RATE - strikeDistance, RATE)

isOptionInTheMoney(direction, strikePrice, currentPrice) ==
  IF direction = "call" THEN currentPrice >= strikePrice ELSE currentPrice <= strikePrice

\* ------------------------------------------------------------------------
\* GameEngine
\* ------------------------------------------------------------------------
\* Seeds Math.random() can supply when the configuration carries none
RandomSeeds == {<<0, 7>>, <<0, 11>>}

\* constructor's seed: config.seed ?? Math.floor(Math.random() * 0xFFFFFFFF)
EngineSeeds(config) == IF config.seed = NoNumber THEN RandomSeeds ELSE {config.seed}

\* constructor, for the seed it settled on
GameEngineNew(config, seed) ==
  [state |-> [capital |-> config.initialCapital,
              currentPrice |-> config.initialPrice,
              position |-> Null,
              options |-> <<>>,
              simpleTurbo |-> Null,
              turboPoints |-> 0,
              houseBankroll |-> config.initialHouseBankroll,
              shieldTicksRemaining |-> 0,
              layeredState |-> createInitialState(config.initialPrice),
              tickCount |-> 0,
              totalProfit |-> 0,
              totalLosses |-> 0,
              totalVolumeTraded |-> 0,
              liquidationCount |-> 0,
              tradeCount |-> 0],
   rng |-> PriceEngineNew(seed),
   config |-> config]

\* processTick: the simple-turbo mirror after the price step
\* fault injection: the simple turbo record is never cleared
TickSimpleTurboKept(st, layeredState) ==
  IF layeredState.turboActive
  THEN [active |-> TRUE,
        ticksRemaining |-> layeredState.turboTicksRemaining,
        direction |-> layeredState.turboDirection,
        startPrice |-> IF st.simpleTurbo # Null THEN st.simpleTurbo.startPrice
                       ELSE st.currentPrice]
  ELSE st.simpleTurbo

TickSimpleTurbo(st, layeredState) ==
  LET wasActive == st.simpleTurbo # Null /\ st.simpleTurbo.active
      simpleTurboEnded == wasActive /\ ~layeredState.turboActive
  IN IF layeredState.turboActive
     THEN [active |-> TRUE,
           ticksRemaining |-> layeredState.turboTicksRemaining,
           direction |-> layeredState.turboDirection,
           startPrice |-> IF st.simpleTurbo # Null THEN st.simpleTurbo.startPrice
                          ELSE st.currentPrice]
     ELSE IF simpleTurboEnded THEN Null
     ELSE st.simpleTurbo

\* processTick: shield reset when no position is held
TickShieldReset(st) ==
  IF st.position = Null /\ st.shieldTicksRemaining > 0 THEN 0 ELSE st.shieldTicksRemaining

\* fault injection: an active shield burns a tick on every tick
ShieldBurnsAlways(hit, shieldTicksRemaining) == shieldTicksRemaining > 0

\* processTick: equity is gone (hit); an active shield burns a tick
ShieldBurns(hit, shieldTicksRemaining) == hit /\ shieldTicksRemaining > 0

\* fault injection: liquidation that ignores the shield
LiquidatesDespiteShield(hit, shieldTicksRemaining) == hit

\* processTick: equity is gone (hit); without a shield the position is liquidated
Liquidates(hit, shieldTicksRemaining) == hit /\ ~(shieldTicksRemaining > 0)

\* processTick: liquidation check and funding accrual
\* [position, shield, houseBankroll, newLosses, liquidated, turboPoints]
TickPosition(st, newPrice, shield0) ==
  IF st.position = Null
  THEN [position |-> Null, shield |-> shield0, houseBankroll |-> st.houseBankroll,
        newLosses |-> 0, liquidated |-> FALSE, turboPoints |-> st.turboPoints]
  ELSE
    LET pos == st.position
        funding == pos.cumulativeFunding
        hit == isPositionLiquidated(pos.entryPrice, newPrice, pos.direction,
                                    pos.size, pos.leverage, funding)
        burn == ShieldBurns(hit, shield0)
        liquidate == Liquidates(hit, shield0)
        fundingCost == FundingCost(MulDiv(pos.size, pos.leverage, MILLI))
    IN IF liquidate
       THEN [position |-> Null, shield |-> shield0,
             houseBankroll |-> st.houseBankroll + pos.size,
             newLosses |-> pos.totalCapitalInvested,
             liquidated |-> TRUE, turboPoints |-> st.turboPoints]
       ELSE [position |-> [pos EXCEPT !.cumulativeFunding = @ + fundingCost,
                                      !.totalFundingPaid = @ + fundingCost],
             shield |-> IF burn THEN shield0 - 1 ELSE shield0,
             houseBankroll |-> st.houseBankroll,
             newLosses |-> 0, liquidated |-> FALSE,
             turboPoints |-> st.turboPoints + calculateEdgePoints(fundingCost)]

\* fault injection: an option that expires only once its counter is below 0
RECURSIVE TickOptionsLate(_, _, _, _)
TickOptionsLate(options, i, newPrice, acc) ==
  IF i > Len(options) THEN acc
  ELSE
    LET option == options[i]
        newTicks == option.ticksRemaining - 1
        inTheMoney == isOptionInTheMoney(option.direction, option.strikePrice, newPrice)
        payout == IF inTheMoney THEN option.premium * option.multiplier ELSE 0
        profit == payout - option.premium
        acc1 == IF newTicks < 0
                THEN IF inTheMoney
                     THEN [acc EXCEPT !.optionsReturn = @ + payout,
                                      !.optionsNetProfit = @ + profit,
                                      !.houseBankroll = @ - profit]
                     ELSE [acc EXCEPT !.optionsNetProfit = @ - option.premium,
                                      !.houseBankroll = @ + option.premium,
                                      !.newLosses = @ + option.premium]
                ELSE [acc EXCEPT !.options = Append(@, [option EXCEPT !.ticksRemaining = newTicks])]
    IN TickOptionsLate(options, i + 1, newPrice, acc1)

\* processTick: option expiry, folding over the options in order
\* acc = [options, optionsReturn, optionsNetProfit, houseBankroll, newLosses]
RECURSIVE TickOptions(_, _, _, _)
TickOptions(options, i, newPrice, acc) ==
  IF i > Len(options) THEN acc
  ELSE
    LET option == options[i]
        newTicks == option.ticksRemaining - 1
        inTheMoney == isOptionInTheMoney(option.direction, option.strikePrice, newPrice)
        payout == IF inTheMoney THEN option.premium * option.multiplier ELSE 0
        profit == payout - option.premium
        acc1 == IF newTicks <= 0
                THEN IF inTheMoney
                     THEN [acc EXCEPT !.optionsReturn = @ + payout,
                                      !.optionsNetProfit = @ + profit,
                                      !.houseBankroll = @ - profit]
                     ELSE [acc EXCEPT !.optionsNetProfit = @ - option.premium,
                                      !.houseBankroll = @ + option.premium,
                                      !.newLosses = @ + option.premium]
                ELSE [acc EXCEPT !.options = Append(@, [option EXCEPT !.ticksRemaining = newTicks])]
    IN TickOptions(options, i + 1, newPrice, acc1)

\* processTick: the final calculations and the state update
TickUpdate(e, st, tick, pp, oo) ==
  [e EXCEPT
     !.rng = tick.rng,
     !.state = [st EXCEPT !.tickCount = @ + 1,
                        !.liquidationCount = IF pp.liquidated THEN @ + 1 ELSE @,
                        !.currentPrice = tick.newPrice,
                        !.position = pp.position,
                        !.options = oo.options,
                        !.simpleTurbo = TickSimpleTurbo(st, tick.newState),
                        !.turboPoints = pp.turboPoints
                                        + MulDiv(oo.newLosses, TURBO_LOSS_PREMIUM, RATE),
                        !.capital = Max(0, st.capital + oo.optionsReturn),
                        !.houseBankroll = oo.houseBankroll,
                        !.totalProfit = @ + oo.optionsNetProfit,
                        !.totalLosses = @ + oo.newLosses,
                        !.shieldTicksRemaining = pp.shield,
                        !.layeredState = tick.newState]]

\* fault injection: options settled against the price before the tick
TickSettleAtOldPrice(e, st, tick, pp) ==
  TickUpdate(e, st, tick, pp,
             TickOptions(st.options, 1, st.currentPrice,
                         [options |-> <<>>, optionsReturn |-> 0, optionsNetProfit |-> 0,
                          houseBankroll |-> pp.houseBankroll, newLosses |-> pp.newLosses]))

\* processTick: options management, after position management gave pp
TickSettle(e, st, tick, pp) ==
  TickUpdate(e, st, tick, pp,
             TickOptions(st.options, 1, tick.newPrice,
                         [options |-> <<>>, optionsReturn |-> 0, optionsNetProfit |-> 0,
                          houseBankroll |-> pp.houseBankroll, newLosses |-> pp.newLosses]))

\* processTick: shield and position management, after the price step gave tick
TickManage(e, st, tick) ==
  TickSettle(e, st, tick, TickPosition(st, tick.newPrice, TickShieldReset(st)))

\* processTick
processTick(e) == TickManage(e, e.state, nextTick(e.state.layeredState, e.rng))

\* executeAction, case 'open_position', past its two early returns
PositionOpened(e, a) ==
  LET st == e.state
      requestedBudget == Min(MulDiv(st.capital, a.sizePercent, MILLI), st.capital)
      spreadMultiplier == RATE + MulDiv(a.leverage, SPREAD_RATE, MILLI)
      size == MulDiv(requestedBudget, RATE, spreadMultiplier)
      notional == MulDiv(size, a.leverage, MILLI)
      spreadCost == MulDiv(notional, SPREAD_RATE, RATE)
      edgePoints == calculateEdgePoints(spreadCost)
      totalCost == size + spreadCost
  IN [e EXCEPT !.state =
             [st EXCEPT !.capital = st.capital - totalCost,
                        !.turboPoints = st.turboPoints + edgePoints,
                        !.houseBankroll = st.houseBankroll + spreadCost,
                        !.totalVolumeTraded = st.totalVolumeTraded + notional,
                        !.tradeCount = st.tradeCount + 1,
                        !.position = [direction |-> a.direction,
                                      entryPrice |-> st.currentPrice,
                                      size |-> size,
                                      leverage |-> a.leverage,
                                      cumulativeFunding |-> 0,
                                      capitalAllocated |-> totalCost,
                                      totalCapitalInvested |-> totalCost,
                                      accumulatedPnL |-> 0,
                                      originalEntryPrice |-> st.currentPrice,
                                      totalFundingPaid |-> 0,
                                      openTick |-> st.tickCount]]]

\* fault injection: an open that replaces the held position
ExecOpenPositionOverHeld(e, a) ==
  IF Min(MulDiv(e.state.capital, a.sizePercent, MILLI), e.state.capital) <= 0 THEN e
  ELSE PositionOpened(e, a)

\* an open whose spread cost does not reach the house
ExecOpenPositionSpreadLost(e, a) ==
  IF e.state.position # Null THEN e
  ELSE IF Min(MulDiv(e.state.capital, a.sizePercent, MILLI), e.state.capital) <= 0 THEN e
  ELSE [PositionOpened(e, a) EXCEPT !.state.houseBankroll = e.state.houseBankroll]

\* executeAction, case 'open_position'
ExecOpenPosition(e, a) ==
  IF e.state.position # Null THEN e
  ELSE IF Min(MulDiv(e.state.capital, a.sizePercent, MILLI), e.state.capital) <= 0 THEN e
  ELSE PositionOpened(e, a)

\* a close that pays the price P&L but does not realise the funding
ExecClosePositionUnfunded(e, a) ==
  LET st == e.state
      pos == st.position
      pricePnL == calculateLeveragedPnL(pos.entryPrice, st.currentPrice, pos.direction,
                                        pos.size, pos.leverage)
  IN IF st.position = Null THEN e
     ELSE [e EXCEPT !.state =
             [st EXCEPT !.capital = st.capital + Max(0, pos.size + pricePnL),
                        !.position = Null,
                        !.houseBankroll = st.houseBankroll - pricePnL,
                        !.shieldTicksRemaining = 0]]

\* executeAction, case 'close_position'
ExecClosePosition(e, a) ==
  LET st == e.state
      pos == st.position
      pricePnL == calculateLeveragedPnL(pos.entryPrice, st.currentPrice, pos.direction,
                                        pos.size, pos.leverage)
      funding == pos.cumulativeFunding
      houseBankroll == st.houseBankroll + funding - pricePnL
      returnedCapital == pos.size + pricePnL - funding
      truePnL == Max(0, returnedCapital) - pos.totalCapitalInvested
      newLosses == IF truePnL < 0 THEN Abs(truePnL) ELSE 0
      lossBonus == MulDiv(newLosses, TURBO_LOSS_PREMIUM, RATE)
  IN IF st.position = Null THEN e
     ELSE [e EXCEPT !.state =
             [st EXCEPT !.capital = st.capital + Max(0, returnedCapital),
                        !.totalProfit = st.totalProfit + (pricePnL - funding),
                        !.position = Null,
                        !.houseBankroll = houseBankroll,
                        !.totalLosses = st.totalLosses + newLosses,
                        !.turboPoints = st.turboPoints + lossBonus,
                        !.shieldTicksRemaining = 0]]

\* fault injection: a shield purchase that does not check the points
ExecBuyShieldUnchecked(e, a) ==
  LET st == e.state
      notional == MulDiv(st.position.size, st.position.leverage, MILLI)
      cost == MulDiv(notional, SHIELD_FLAT_RATE, RATE)
  IN IF st.position = Null THEN e
     ELSE [e EXCEPT !.state =
             [st EXCEPT !.turboPoints = st.turboPoints - cost,
                        !.shieldTicksRemaining = st.shieldTicksRemaining + SHIELD_TICKS_PER_BUY]]

\* executeAction, case 'buy_shield'
ExecBuyShield(e, a) ==
  LET st == e.state
      notional == MulDiv(st.position.size, st.position.leverage, MILLI)
      cost == MulDiv(notional, SHIELD_FLAT_RATE, RATE)
  IN IF st.position = Null THEN e
     ELSE IF st.turboPoints < cost THEN e
     ELSE [e EXCEPT !.state =
             [st EXCEPT !.turboPoints = st.turboPoints - cost,
                        !.shieldTicksRemaining = st.shieldTicksRemaining + SHIELD_TICKS_PER_BUY]]

\* executeAction, case 'buy_option'
\* executeAction, case 'buy_option', given the strike that the linked
\* calculateOptionStrike returned
OptionBought(e, a, strikePrice) ==
  LET st == e.state
      edgePoints == calculateEdgePoints(calculateOptionEdge(a.premium))
      totalTicks == a.durationSeconds * TICKS_PER_SECOND
  IN IF a.premium <= 0 \/ a.premium > st.capital THEN e
     ELSE [e EXCEPT !.state =
             [st EXCEPT !.capital = st.capital - a.premium,
                        !.turboPoints = st.turboPoints + edgePoints,
                        !.totalVolumeTraded = st.totalVolumeTraded + a.premium,
                        !.options = Append(st.options,
                                           [direction |-> a.direction,
                                            strikePrice |-> strikePrice,
                                            purchasePrice |-> st.currentPrice,
                                            premium |-> a.premium,
                                            multiplier |-> a.multiplier,
                                            ticksRemaining |-> totalTicks,
                                            totalTicks |-> totalTicks])]]

\* executeAction, case 'buy_option'; the engine specifications link the
\* copy of calculateOptionStrike whose table is the documented one
ExecBuyOption(e, a) ==
  OptionBought(e, a, calculateOptionStrike(e.state.currentPrice, a.direction,
                                           a.multiplier, a.durationSeconds))

\* fault injection: a mirror that always shows an upward turbo
TurboTriggeredUpward(e, st, cost, started) ==
  [e EXCEPT
     !.rng = started.rng,
     !.state = [st EXCEPT !.turboPoints = st.turboPoints - cost,
                          !.layeredState = started.newState,
                          !.simpleTurbo = [active |-> TRUE,
                                           ticksRemaining |-> 10,
                                           direction |-> 1,
                                           startPrice |-> st.currentPrice]]]

\* executeAction, case 'trigger_simple_turbo', once the price engine has
\* started the turbo
TurboTriggered(e, st, cost, started) ==
  [e EXCEPT
     !.rng = started.rng,
     !.state = [st EXCEPT !.turboPoints = st.turboPoints - cost,
                          !.layeredState = started.newState,
                          !.simpleTurbo = [active |-> TRUE,
                                           ticksRemaining |-> 10,
                                           direction |-> started.newState.turboDirection,
                                           startPrice |-> st.currentPrice]]]

\* executeAction, case 'trigger_simple_turbo'
ExecTriggerSimpleTurbo(e, a) ==
  LET st == e.state
      notional == MulDiv(st.position.size, st.position.leverage, MILLI)
      cost == MulDiv(notional, SIMPLE_TURBO_COST_RATE, RATE)
  IN IF st.position = Null \/ (st.simpleTurbo # Null /\ st.simpleTurbo.active) THEN e
     ELSE IF st.turboPoints < cost THEN e
     ELSE TurboTriggered(e, st, cost, startTurbo(st.layeredState, e.rng))

\* fault injection: a relever that restarts the position's history
ExecReleverReopened(e, a) ==
  LET st == e.state
      pos == st.position
      pricePnL == calculateLeveragedPnL(pos.entryPrice, st.currentPrice, pos.direction,
                                        pos.size, pos.leverage)
      funding == pos.cumulativeFunding
      equity == pos.size + pricePnL - funding
      newNotional == MulDiv(equity, a.targetLeverage, MILLI)
      spreadCost == MulDiv(newNotional, SPREAD_RATE, RATE)
      newSize == equity - spreadCost
      edgePoints == calculateEdgePoints(spreadCost)
      lockedInPnL == pricePnL - funding - spreadCost
  IN IF st.position = Null \/ a.targetLeverage < MILLI THEN e
     ELSE IF equity <= 0 THEN e
     ELSE IF newSize <= 0 THEN e
     ELSE [e EXCEPT !.state =
             [st EXCEPT !.turboPoints = st.turboPoints + edgePoints,
                        !.houseBankroll = st.houseBankroll + spreadCost + funding - pricePnL,
                        !.totalVolumeTraded = st.totalVolumeTraded + newNotional,
                        !.position = [pos EXCEPT !.entryPrice = st.currentPrice,
                                                 !.size = newSize,
                                                 !.leverage = a.targetLeverage,
                                                 !.cumulativeFunding = 0,
                                                 !.capitalAllocated = newSize,
                                                 !.accumulatedPnL = pos.accumulatedPnL + lockedInPnL,
                                                 !.totalFundingPaid = pos.totalFundingPaid + funding,
                                                 !.originalEntryPrice = st.currentPrice,
                                                 !.openTick = st.tickCount]]]

\* executeAction, case 'relever'
ExecRelever(e, a) ==
  LET st == e.state
      pos == st.position
      pricePnL == calculateLeveragedPnL(pos.entryPrice, st.currentPrice, pos.direction,
                                        pos.size, pos.leverage)
      funding == pos.cumulativeFunding
      equity == pos.size + pricePnL - funding
      newNotional == MulDiv(equity, a.targetLeverage, MILLI)
      spreadCost == MulDiv(newNotional, SPREAD_RATE, RATE)
      newSize == equity - spreadCost
      edgePoints == calculateEdgePoints(spreadCost)
      lockedInPnL == pricePnL - funding - spreadCost
  IN IF st.position = Null \/ a.targetLeverage < MILLI THEN e
     ELSE IF equity <= 0 THEN e
     ELSE IF newSize <= 0 THEN e
     ELSE [e EXCEPT !.state =
             [st EXCEPT !.turboPoints = st.turboPoints + edgePoints,
                        !.houseBankroll = st.houseBankroll + spreadCost + funding - pricePnL,
                        !.totalVolumeTraded = st.totalVolumeTraded + newNotional,
                        !.position = [pos EXCEPT !.entryPrice = st.currentPrice,
                                                 !.size = newSize,
                                                 !.leverage = a.targetLeverage,
                                                 !.cumulativeFunding = 0,
                                                 !.capitalAllocated = newSize,
                                                 !.accumulatedPnL = pos.accumulatedPnL + lockedInPnL,
                                                 !.totalFundingPaid = pos.totalFundingPaid + funding]]]

\* executeAction, case 'add_equity'
\* an add_equity that resets the funding of the position without paying it
\* to the house
ExecAddEquityUnfunded(e, a) ==
  LET st == e.state
      pos == st.position
      additionalCapital == MulDiv(st.capital, a.additionalPercent, MILLI)
      pricePnL == calculateLeveragedPnL(pos.entryPrice, st.currentPrice, pos.direction,
                                        pos.size, pos.leverage)
      currentEquity == pos.size + pricePnL - pos.cumulativeFunding
      newEquity == currentEquity + additionalCapital
  IN IF st.position = Null THEN e
     ELSE IF additionalCapital <= 0 THEN e
     ELSE IF currentEquity <= 0 THEN e
     ELSE [e EXCEPT !.state =
             [st EXCEPT !.capital = st.capital - additionalCapital,
                        !.houseBankroll = st.houseBankroll - pricePnL,
                        !.position = [pos EXCEPT !.entryPrice = st.currentPrice,
                                                 !.size = newEquity,
                                                 !.cumulativeFunding = 0,
                                                 !.capitalAllocated = newEquity]]]

\* the recomputed leverage without the lower clamp
AddEquityLeverageUnclamped(notionalAtCurrentPrice, newEquity) ==
  MulDiv(notionalAtCurrentPrice, MILLI, newEquity)

\* newLeverage = Math.max(1, notionalAtCurrentPrice / newEquity)
AddEquityLeverage(notionalAtCurrentPrice, newEquity) ==
  Max(MILLI, MulDiv(notionalAtCurrentPrice, MILLI, newEquity))

ExecAddEquity(e, a) ==
  LET st == e.state
      pos == st.position
      additionalCapital == MulDiv(st.capital, a.additionalPercent, MILLI)
      pricePnL == calculateLeveragedPnL(pos.entryPrice, st.currentPrice, pos.direction,
                                        pos.size, pos.leverage)
      funding == pos.cumulativeFunding
      currentEquity == pos.size + pricePnL - funding
      \* units = size * leverage / entryPrice, notionalAtCurrentPrice = units * currentPrice
      notionalAtCurrentPrice == MulDiv(MulDiv(pos.size, pos.leverage, MILLI),
                                       st.currentPrice, pos.entryPrice)
      newEquity == currentEquity + additionalCapital
      newLeverage == AddEquityLeverage(notionalAtCurrentPrice, newEquity)
      addEquityLockedInPnL == pricePnL - funding
  IN IF st.position = Null THEN e
     ELSE IF additionalCapital <= 0 THEN e
     ELSE IF currentEquity <= 0 THEN e
     ELSE [e EXCEPT !.state =
             [st EXCEPT !.capital = st.capital - additionalCapital,
                        !.houseBankroll = st.houseBankroll + funding - pricePnL,
                        !.position = [pos EXCEPT !.entryPrice = st.currentPrice,
                                                 !.size = newEquity,
                                                 !.leverage = newLeverage,
                                                 !.cumulativeFunding = 0,
                                                 !.capitalAllocated = newEquity,
                                                 !.totalCapitalInvested = pos.totalCapitalInvested + additionalCapital,
                                                 !.accumulatedPnL = pos.accumulatedPnL + addEquityLockedInPnL,
                                                 !.totalFundingPaid = pos.totalFundingPaid + funding]]]

\* executeAction: dispatch on action.type
executeAction(e, a) ==
  CASE a.type = "open_position" -> ExecOpenPosition(e, a)
    [] a.type = "close_position" -> ExecClosePosition(e, a)
    [] a.type = "buy_shield" -> ExecBuyShield(e, a)
    [] a.type = "buy_option" -> ExecBuyOption(e, a)
    [] a.type = "trigger_simple_turbo" -> ExecTriggerSimpleTurbo(e, a)
    [] a.type = "relever" -> ExecRelever(e, a)
    [] a.type = "add_equity" -> ExecAddEquity(e, a)
    [] OTHER -> e

\* ------------------------------------------------------------------------
\* The engine specification: a GameEngine driven by any sequence of
\* processTick and executeAction calls
\* ------------------------------------------------------------------------
MaxTicks == 2        \* processTick calls explored
MaxActs == 3         \* state-changing executeAction calls explored

Dollars(n) == n * MONEY

\* the session configurations explored: (capital, price, house bankroll, tick rate)
EngineConfig ==
  [initialCapital |-> Dollars(100), initialPrice |-> Dollars(100),
   initialHouseBankroll |-> Dollars(10000), tickRateMs |-> 100, seed |-> NoNumber]

\* master seeds explored by the engine specification
EngineSeedSet == {<<0, 282>>, <<0, 498>>}

OpenActions ==
  {[type |-> "open_position", direction |-> "long", sizePercent |-> 500, leverage |-> 500000],
   [type |-> "open_position", direction |-> "short", sizePercent |-> 100, leverage |-> 500000],
   [type |-> "open_position", direction |-> "long", sizePercent |-> 1000, leverage |-> 2000],
   [type |-> "open_position", direction |-> "short", sizePercent |-> 0, leverage |-> 2000]}

OptionActions ==
  {[type |-> "buy_option", direction |-> "call", premium |-> Dollars(10),
    multiplier |-> 2, durationSeconds |-> 1],
   [type |-> "buy_option", direction |-> "put", premium |-> Dollars(10),
    multiplier |-> 2, durationSeconds |-> 1],
   [type |-> "buy_option", direction |-> "call", premium |-> Dollars(2000),
    multiplier |-> 5, durationSeconds |-> 5],
   [type |-> "buy_option", direction |-> "put", premium |-> 0,
    multiplier |-> 2, durationSeconds |-> 1]}

ReleverActions ==
  {[type |-> "relever", targetLeverage |-> t] : t \in {500, 1000, 250000}}

AddEquityActions ==
  {[type |-> "add_equity", additionalPercent |-> p] : p \in {0, 500, 2000}}

PlayerActions ==
  OpenActions \cup OptionActions \cup ReleverActions \cup AddEquityActions
  \cup {[type |-> "close_position"], [type |-> "buy_shield"], [type |-> "trigger_simple_turbo"]}

\* the price engine of a second session of the same seed and config whose
\* action log is empty, after one more tick
BackgroundTick(session) ==
  LET tick == nextTick(session.ls, session.rng)
  IN [ls |-> tick.newState, rng |-> tick.rng]

\* twin is the price engine of the second session
InitEngine ==
  /\ input = Null
  /\ \E s \in EngineSeedSet :
       LET config == [EngineConfig EXCEPT !.seed = s]
       IN \E seed \in EngineSeeds(config) :
            /\ eng = GameEngineNew(config, seed)
            /\ twin = [ls |-> createInitialState(config.initialPrice),
                       rng |-> PriceEngineNew(seed)]
  /\ ctl = [acts |-> 0]
  /\ result = Null
  /\ last = [op |-> "new", changed |-> FALSE]

\* a refused executeAction returns without touching the engine, so the state
\* after it differs from the state before it in the history variable only; the
\* calls that follow a refused action are explored from the state before it
Resumable == last.changed \/ last.op = "new"

\* a call of processTick; the second session ticks along whenever the price
\* step takes the layered branch of nextTick, so that it has taken as many
\* ticks as this session has taken on the normal path
Tick ==
  /\ Resumable
  /\ eng.state.tickCount < MaxTicks
  /\ eng' = processTick(eng)
  /\ twin' = IF eng.state.layeredState.turboActive
                /\ eng.state.layeredState.turboTicksRemaining > 0
             THEN twin ELSE BackgroundTick(twin)
  /\ last' = [op |-> "tick", changed |-> TRUE]
  /\ UNCHANGED <<input, ctl, result>>

\* a call of executeAction(a)
Act(a) ==
  /\ Resumable
  /\ ctl.acts < MaxActs
  /\ eng' = executeAction(eng, a)
  /\ last' = [op |-> a.type, changed |-> (eng' # eng)]
  /\ ctl' = [ctl EXCEPT !.acts = IF eng' # eng THEN @ + 1 ELSE @]
  /\ UNCHANGED <<input, twin, result>>

OpenPosition == \E a \in OpenActions : a.type = "open_position" /\ Act(a)
ClosePosition == \E a \in {[type |-> "close_position"]} : a.type = "close_position" /\ Act(a)
BuyShield == \E a \in {[type |-> "buy_shield"]} : a.type = "buy_shield" /\ Act(a)
BuyOption == \E a \in OptionActions : a.type = "buy_option" /\ Act(a)
TriggerSimpleTurbo ==
  \E a \in {[type |-> "trigger_simple_turbo"]} : a.type = "trigger_simple_turbo" /\ Act(a)
Relever == \E a \in ReleverActions : a.type = "relever" /\ Act(a)
AddEquity == \E a \in AddEquityActions : a.type = "add_equity" /\ Act(a)

NextEngine ==
  \/ Tick
  \/ OpenPosition
  \/ ClosePosition
  \/ BuyShield
  \/ BuyOption
  \/ TriggerSimpleTurbo
  \/ Relever
  \/ AddEquity

Spec == InitEngine /\ [][NextEngine]_vars

\* ------------------------------------------------------------------------
\* Seed commitments (crypto/seeds.ts, verify/commitments.ts)
\* ------------------------------------------------------------------------

\* seed.toString() for a non-negative integer seed: its decimal digits as
\* character codes
RECURSIVE NumberToString(_)
NumberToString(n) ==
  LET t == (n[1] % 10) * W16 + n[2]
      q == <<n[1] \div 10, t \div 10>>
      d == <<48 + (t % 10)>>
  IN IF q = <<0, 0>> THEN d ELSE NumberToString(q) \o d

\* createHash('sha256').update(data).digest('hex'): SHA-256 is taken to be
\* collision free, so the digest is represented by the data it was made from
sha256(data) == <<"sha256", data>>

\* fault injection: only the low 16 bits of the seed are hashed
hashSeedLowWord(seed) == sha256(NumberToString(<<0, seed[2]>>))

\* createHash('sha256').update(seed.toString()).digest('hex')
hashSeed(seed) == sha256(NumberToString(seed))

\* fault injection: a commitment check that accepts every hash
verifySeedCommitmentAny(seed, commitHash) == TRUE

verifySeedCommitment(seed, commitHash) == hashSeed(seed) = commitHash

\* fault injection: the XOR left as a signed 32-bit value
combineSeedsSigned(seed1, seed2) == WXor(seed1, seed2)

\* fault injection: the seeds added instead of XORed
combineSeedsSum(seed1, seed2) == ToUint32(WAdd(seed1, seed2))

\* (seed1 ^ seed2) >>> 0
combineSeeds(seed1, seed2) == ToUint32(WXor(seed1, seed2))

\* an absent or empty commitment string (both are falsy)
NoHash == <<>>

\* fault injection: a house mismatch that pushes no error
CommitmentErrorsWithoutHouse(houseValid, playerValid, combinedValid) ==
  (IF playerValid THEN <<>> ELSE <<[kind |-> "player commitment"]>>)
  \o (IF combinedValid THEN <<>> ELSE <<[kind |-> "combined seed"]>>)

\* the errors verifyCommitments pushes, in order
CommitmentErrors(houseValid, playerValid, combinedValid) ==
  (IF houseValid THEN <<>> ELSE <<[kind |-> "house commitment"]>>)
  \o (IF playerValid THEN <<>> ELSE <<[kind |-> "player commitment"]>>)
  \o (IF combinedValid THEN <<>> ELSE <<[kind |-> "combined seed"]>>)

verifyCommitments(inp) ==
  LET houseValid == verifySeedCommitment(inp.houseSeed, inp.houseCommitHash)
      checkPlayer == inp.playerSeed # NoNumber /\ inp.playerCommitHash # NoHash
      playerValid == IF checkPlayer
                     THEN verifySeedCommitment(inp.playerSeed, inp.playerCommitHash)
                     ELSE TRUE
      checkCombined == inp.playerSeed # NoNumber /\ inp.combinedSeed # NoNumber
      combinedValid == IF checkCombined
                       THEN combineSeeds(inp.houseSeed, inp.playerSeed) = inp.combinedSeed
                       ELSE TRUE
  IN [houseValid |-> houseValid,
      playerValid |-> playerValid,
      combinedValid |-> combinedValid,
      errors |-> CommitmentErrors(houseValid, playerValid, combinedValid)]

\* ------------------------------------------------------------------------
\* Session replay (verify/replay.ts)
\* ------------------------------------------------------------------------

\* the comparator of the sort: a sorts strictly before b
CompareEntries(a, b) ==
  IF a.tickNumber # b.tickNumber THEN a.tickNumber < b.tickNumber
  ELSE a.timestamp < b.timestamp

\* fault injection: an insertion that puts an entry before its equals
RECURSIVE InsertEntryBeforeEquals(_, _)
InsertEntryBeforeEquals(sorted, x) ==
  IF sorted = <<>> THEN <<x>>
  ELSE IF ~CompareEntries(Head(sorted), x) THEN <<x>> \o sorted
  ELSE <<Head(sorted)>> \o InsertEntryBeforeEquals(Tail(sorted), x)

\* [...actionLog].sort(comparator): a stable sort
RECURSIVE InsertEntry(_, _)
InsertEntry(sorted, x) ==
  IF sorted = <<>> THEN <<x>>
  ELSE IF CompareEntries(x, Head(sorted)) THEN <<x>> \o sorted
  ELSE <<Head(sorted)>> \o InsertEntry(Tail(sorted), x)

RECURSIVE SortActions(_)
SortActions(actionLog) ==
  IF actionLog = <<>> THEN <<>>
  ELSE InsertEntry(SortActions(SubSeq(actionLog, 1, Len(actionLog) - 1)),
                   actionLog[Len(actionLog)])

RECURSIVE MaxTickNumber(_)
MaxTickNumber(entries) ==
  IF Len(entries) = 1 THEN entries[1].tickNumber
  ELSE Max(entries[1].tickNumber, MaxTickNumber(Tail(entries)))

\* const seed = input.combinedSeed ?? input.houseSeed
ReplaySeed(inp) == IF inp.combinedSeed # NoNumber THEN inp.combinedSeed ELSE inp.houseSeed

\* fault injection: the session config passed on without the seed
ReplayConfigAsGiven(inp) == inp.config

\* { ...input.config, seed }
ReplayConfig(inp) == [inp.config EXCEPT !.seed = ReplaySeed(inp)]

\* fault injection: an expected tick count of 0 taken for an absent one
HasExpectedTickCountTruthy(inp) ==
  /\ inp.expectedFinalState # Null
  /\ "tickCount" \in DOMAIN inp.expectedFinalState
  /\ inp.expectedFinalState.tickCount # 0

\* input.expectedFinalState?.tickCount is not undefined
HasExpectedTickCount(inp) ==
  inp.expectedFinalState # Null /\ "tickCount" \in DOMAIN inp.expectedFinalState

HeuristicPadding == 100
HeuristicEmptyLog == 1000
HeuristicTail == 10

\* replaySession up to the while loop: the engine and the locals
\* (actionIndex counts the entries consumed so far)
ReplayStart(inp, seed) ==
  LET sortedActions == SortActions(inp.actionLog)
      maxTick == IF HasExpectedTickCount(inp) THEN inp.expectedFinalState.tickCount
                 ELSE IF Len(sortedActions) > 0
                      THEN MaxTickNumber(sortedActions) + HeuristicPadding
                      ELSE HeuristicEmptyLog
  IN [eng |-> GameEngineNew(ReplayConfig(inp), seed),
      loc |-> [pc |-> IF 0 < maxTick THEN "loop" ELSE "returned",
               sortedActions |-> sortedActions,
               actionIndex |-> 0,
               ticksProcessed |-> 0,
               actionsExecuted |-> 0,
               actionErrors |-> <<>>,
               maxTick |-> maxTick]]

\* the condition of the inner while loop
ActionDue(loc) ==
  /\ loc.actionIndex < Len(loc.sortedActions)
  /\ loc.sortedActions[loc.actionIndex + 1].tickNumber = loc.ticksProcessed

\* one iteration of the inner while loop
ActionReplayed(run, action, after) ==
  LET loc == run.loc
      stateChanged == after.state # run.eng.state
  IN [eng |-> after,
      loc |-> [loc EXCEPT !.actionIndex = @ + 1,
                          !.actionsExecuted = IF stateChanged THEN @ + 1 ELSE @,
                          !.actionErrors =
                            IF stateChanged THEN @
                            ELSE Append(@, [tick |-> loc.ticksProcessed,
                                            type |-> action.type])]]

ReplayAction(run) ==
  LET action == run.loc.sortedActions[run.loc.actionIndex + 1].action
  IN ActionReplayed(run, action, executeAction(run.eng, action))

\* fault injection: an early break already at the tenth tick past the last
\* action
ReplayTickTailInclusive(inp, run) ==
  LET loc == run.loc
      n == Len(loc.sortedActions)
      ticksProcessed == loc.ticksProcessed + 1
      lastTick == IF n > 0 THEN loc.sortedActions[n].tickNumber ELSE 0
      break == /\ ~HasExpectedTickCount(inp)
               /\ loc.actionIndex >= n
               /\ ticksProcessed >= lastTick + HeuristicTail
  IN [eng |-> processTick(run.eng),
      loc |-> [loc EXCEPT !.ticksProcessed = ticksProcessed,
                          !.pc = IF break \/ ~(ticksProcessed < loc.maxTick)
                                 THEN "returned" ELSE "loop"]]

\* the rest of an outer iteration: processTick, the count, the early break
\* and the loop condition
ReplayTick(inp, run) ==
  LET loc == run.loc
      n == Len(loc.sortedActions)
      ticksProcessed == loc.ticksProcessed + 1
      lastTick == IF n > 0 THEN loc.sortedActions[n].tickNumber ELSE 0
      break == /\ ~HasExpectedTickCount(inp)
               /\ loc.actionIndex >= n
               /\ ticksProcessed > lastTick + HeuristicTail
  IN [eng |-> processTick(run.eng),
      loc |-> [loc EXCEPT !.ticksProcessed = ticksProcessed,
                          !.pc = IF break \/ ~(ticksProcessed < loc.maxTick)
                                 THEN "returned" ELSE "loop"]]

\* the value replaySession returns
ReplayResult(run) ==
  [finalState |-> run.eng.state,
   ticksProcessed |-> run.loc.ticksProcessed,
   actionsExecuted |-> run.loc.actionsExecuted,
   actionErrors |-> run.loc.actionErrors]

\* const tolerance = 0.0001, in units of 1/MONEY
tolerance == 1

\* fault injection: a comparison of the capital alone
compareStatesCapitalOnly(actual, expected) ==
  LET differences == IF Abs(actual.capital - expected.capital) > tolerance
                     THEN <<"Capital">> ELSE <<>>
  IN [match |-> differences = <<>>, differences |-> differences]

compareStates(actual, expected) ==
  LET differences ==
        (IF Abs(actual.capital - expected.capital) > tolerance
         THEN <<"Capital">> ELSE <<>>)
        \o (IF "tickCount" \in DOMAIN expected /\ actual.tickCount # expected.tickCount
            THEN <<"Tick count">> ELSE <<>>)
        \o (IF "totalProfit" \in DOMAIN expected
               /\ Abs(actual.totalProfit - expected.totalProfit) > tolerance
            THEN <<"Total profit">> ELSE <<>>)
        \o (IF "totalLosses" \in DOMAIN expected
               /\ Abs(actual.totalLosses - expected.totalLosses) > tolerance
            THEN <<"Total losses">> ELSE <<>>)
  IN [match |-> differences = <<>>, differences |-> differences]

\* ------------------------------------------------------------------------
\* The verdict (verify/verify.ts)
\* ------------------------------------------------------------------------

\* replayResult.actionErrors.map(e => `Action error: ${e}`)
RECURSIVE ActionErrorsOf(_)
ActionErrorsOf(actionErrors) ==
  IF actionErrors = <<>> THEN <<>>
  ELSE <<[kind |-> "action error", tick |-> Head(actionErrors).tick,
          type |-> Head(actionErrors).type]>> \o ActionErrorsOf(Tail(actionErrors))

\* comparison.differences.map(d => `State mismatch: ${d}`)
RECURSIVE StateMismatchesOf(_)
StateMismatchesOf(differences) ==
  IF differences = <<>> THEN <<>>
  ELSE <<[kind |-> "state mismatch", field |-> Head(differences)]>>
       \o StateMismatchesOf(Tail(differences))

ClientStateOf(st) ==
  [capital |-> st.capital,
   currentPrice |-> st.currentPrice,
   position |-> st.position,
   options |-> st.options,
   simpleTurbo |-> st.simpleTurbo,
   turboPoints |-> st.turboPoints,
   shieldTicksRemaining |-> st.shieldTicksRemaining,
   tickCount |-> st.tickCount,
   totalProfit |-> st.totalProfit,
   totalLosses |-> st.totalLosses,
   houseBankroll |-> st.houseBankroll]

\* verifySession, given what verifyCommitments and replaySession returned;
\* stateMatch and stateDifferences are fields only when they are defined
verifySession(inp, commitmentResult, replayResult) ==
  LET warnings == IF replayResult.actionsExecuted < Len(inp.actionLog)
                  THEN <<[kind |-> "actions skipped",
                          executed |-> replayResult.actionsExecuted,
                          logged |-> Len(inp.actionLog)]>>
                  ELSE <<>>
      hasExpected == inp.expectedFinalState # Null
      comparison == compareStates(replayResult.finalState, inp.expectedFinalState)
      errors == commitmentResult.errors
                \o ActionErrorsOf(replayResult.actionErrors)
                \o (IF hasExpected /\ ~comparison.match
                    THEN StateMismatchesOf(comparison.differences) ELSE <<>>)
      verdict == [valid |-> errors = <<>>,
                  errors |-> errors,
                  warnings |-> warnings,
                  houseCommitmentValid |-> commitmentResult.houseValid,
                  playerCommitmentValid |-> commitmentResult.playerValid,
                  seedCombinationValid |-> commitmentResult.combinedValid,
                  replayedState |-> ClientStateOf(replayResult.finalState),
                  ticksProcessed |-> replayResult.ticksProcessed,
                  actionsExecuted |-> replayResult.actionsExecuted]
  IN IF hasExpected
     THEN verdict @@ [stateMatch |-> comparison.match,
                      stateDifferences |-> comparison.differences]
     ELSE verdict

\* ------------------------------------------------------------------------
\* The verification specification: verifySession on one input, step by step
\* ------------------------------------------------------------------------
ReplayTicks == 2     \* tickCount of the expected final states explored
LogTicks == 1        \* largest tickNumber in the action logs explored

HouseSeed == <<0, 282>>
PlayerSeed == <<40000, 7>>
OtherSeed == <<0, 498>>
CombinedSeed == <<40000, 285>>     \* HouseSeed XOR PlayerSeed, unsigned

Entry(tickNumber, action, timestamp) ==
  [tickNumber |-> tickNumber, action |-> action, timestamp |-> timestamp]

OpenLong ==
  [type |-> "open_position", direction |-> "long", sizePercent |-> 1000, leverage |-> 2000]

\* action logs: empty; open then close; a lone close (no position to close);
\* an unsorted log with a shield purchase the points cannot pay for
ActionLogs ==
  {<<>>,
   <<Entry(0, OpenLong, 1), Entry(LogTicks, [type |-> "close_position"], 2)>>,
   <<Entry(0, [type |-> "close_position"], 1)>>,
   <<Entry(LogTicks, [type |-> "close_position"], 2), Entry(0, OpenLong, 1),
     Entry(0, [type |-> "buy_shield"], 1)>>}

\* expected final states: none; untouched capital; the state the engine
\* reaches on the open-then-close log under HouseSeed with two ticks; a tick
\* count of 0; a capital alone, off by the tolerance; a capital off by more
ExpectedStates ==
  {Null,
   [capital |-> Dollars(100), tickCount |-> ReplayTicks],
   [capital |-> 985149, tickCount |-> ReplayTicks,
    totalProfit |-> -4951, totalLosses |-> 14851],
   [capital |-> Dollars(100), tickCount |-> 0],
   [capital |-> Dollars(100) + tolerance],
   [capital |-> Dollars(100) - tolerance - 1, tickCount |-> ReplayTicks, totalLosses |-> 0]}

VerificationInputs ==
  {[houseSeed |-> HouseSeed, houseCommitHash |-> hh,
    playerSeed |-> ps, playerCommitHash |-> ph, combinedSeed |-> cs,
    config |-> EngineConfig, actionLog |-> log, expectedFinalState |-> ex] :
     hh \in {hashSeed(HouseSeed), hashSeed(OtherSeed)},
     ps \in {NoNumber, PlayerSeed},
     ph \in {NoHash, hashSeed(PlayerSeed), hashSeed(OtherSeed)},
     cs \in {NoNumber, CombinedSeed, OtherSeed},
     log \in ActionLogs,
     ex \in ExpectedStates}

InitVerify ==
  /\ input \in VerificationInputs
  /\ eng = Null
  /\ ctl = [pc |-> "verifyCommitments"]
  /\ twin = Null
  /\ result = Null
  /\ last = [op |-> "call", changed |-> FALSE]

\* Step 1: verifyCommitments(input)
VerifyCommitments ==
  /\ ctl.pc = "verifyCommitments"
  /\ ctl' = [pc |-> "replaySession", commitmentResult |-> verifyCommitments(input)]
  /\ last' = [op |-> "verifyCommitments", changed |-> FALSE]
  /\ UNCHANGED <<input, eng, twin, result>>

\* Step 2: replaySession(input), up to its loop
StartReplay ==
  /\ ctl.pc = "replaySession"
  /\ \E seed \in EngineSeeds(ReplayConfig(input)) :
       \E run \in {ReplayStart(input, seed)} :
         /\ eng' = run.eng
         /\ ctl' = run.loc @@ [commitmentResult |-> ctl.commitmentResult]
  /\ last' = [op |-> "replaySession", changed |-> FALSE]
  /\ UNCHANGED <<input, twin, result>>

\* replaySession: an action of the log is due
ReplayActionStep ==
  /\ ctl.pc = "loop"
  /\ ActionDue(ctl)
  /\ \E run \in {ReplayAction([eng |-> eng, loc |-> ctl])} :
       /\ eng' = run.eng
       /\ ctl' = run.loc
       /\ last' = [op |-> ctl.sortedActions[ctl.actionIndex + 1].action.type,
                   changed |-> (run.eng.state # eng.state)]
  /\ UNCHANGED <<input, twin, result>>

\* replaySession: no action is due, the tick is processed
ReplayTickStep ==
  /\ ctl.pc = "loop"
  /\ ~ActionDue(ctl)
  /\ \E run \in {ReplayTick(input, [eng |-> eng, loc |-> ctl])} :
       /\ eng' = run.eng
       /\ ctl' = run.loc
  /\ last' = [op |-> "tick", changed |-> TRUE]
  /\ UNCHANGED <<input, twin, result>>

\* Step 3 and the return of verifySession
ReturnVerdict ==
  /\ ctl.pc = "returned"
  /\ result' = verifySession(input, ctl.commitmentResult,
                             ReplayResult([eng |-> eng, loc |-> ctl]))
  /\ ctl' = [ctl EXCEPT !.pc = "done"]
  /\ last' = [op |-> "return", changed |-> FALSE]
  /\ UNCHANGED <<input, eng, twin>>

NextVerify ==
  \/ VerifyCommitments
  \/ StartReplay
  \/ ReplayActionStep
  \/ ReplayTickStep
  \/ ReturnVerdict

SpecVerify == InitVerify /\ [][NextVerify]_vars

\* ------------------------------------------------------------------------
\* The twin specification: replaySession invoked twice on one input, the
\* two invocations advancing independently of each other
\* ------------------------------------------------------------------------
TwinInputs ==
  {[houseSeed |-> HouseSeed, houseCommitHash |-> hashSeed(HouseSeed),
    playerSeed |-> NoNumber, playerCommitHash |-> NoHash, combinedSeed |-> cs,
    config |-> EngineConfig, actionLog |-> log, expectedFinalState |-> ex] :
     cs \in {NoNumber, OtherSeed},
     log \in ActionLogs,
     ex \in {Null, [capital |-> Dollars(100), tickCount |-> ReplayTicks]}}

InitTwin ==
  /\ input \in TwinInputs
  /\ eng = Null
  /\ ctl = [pc |-> "call"]
  /\ twin = [eng |-> Null, loc |-> [pc |-> "call"]]
  /\ result = Null
  /\ last = [op |-> "call", changed |-> FALSE]

FirstStart ==
  /\ ctl.pc = "call"
  /\ \E seed \in EngineSeeds(ReplayConfig(input)) :
       \E run \in {ReplayStart(input, seed)} :
         /\ eng' = run.eng
         /\ ctl' = run.loc
  /\ last' = [op |-> "replaySession", changed |-> FALSE]
  /\ UNCHANGED <<input, twin, result>>

FirstAction ==
  /\ ctl.pc = "loop"
  /\ ActionDue(ctl)
  /\ \E run \in {ReplayAction([eng |-> eng, loc |-> ctl])} :
       /\ eng' = run.eng
       /\ ctl' = run.loc
       /\ last' = [op |-> ctl.sortedActions[ctl.actionIndex + 1].action.type,
                   changed |-> (run.eng.state # eng.state)]
  /\ UNCHANGED <<input, twin, result>>

FirstTick ==
  /\ ctl.pc = "loop"
  /\ ~ActionDue(ctl)
  /\ \E run \in {ReplayTick(input, [eng |-> eng, loc |-> ctl])} :
       /\ eng' = run.eng
       /\ ctl' = run.loc
  /\ last' = [op |-> "tick", changed |-> TRUE]
  /\ UNCHANGED <<input, twin, result>>

SecondStart ==
  /\ twin.loc.pc = "call"
  /\ \E seed \in EngineSeeds(ReplayConfig(input)) : twin' = ReplayStart(input, seed)
  /\ last' = [op |-> "replaySession", changed |-> FALSE]
  /\ UNCHANGED <<input, eng, ctl, result>>

SecondAction ==
  /\ twin.loc.pc = "loop"
  /\ ActionDue(twin.loc)
  /\ twin' = ReplayAction(twin)
  /\ last' = [op |-> twin.loc.sortedActions[twin.loc.actionIndex + 1].action.type,
              changed |-> (twin'.eng.state # twin.eng.state)]
  /\ UNCHANGED <<input, eng, ctl, result>>

SecondTick ==
  /\ twin.loc.pc = "loop"
  /\ ~ActionDue(twin.loc)
  /\ twin' = ReplayTick(input, twin)
  /\ last' = [op |-> "tick", changed |-> TRUE]
  /\ UNCHANGED <<input, eng, ctl, result>>

NextTwin ==
  \/ FirstStart
  \/ FirstAction
  \/ FirstTick
  \/ SecondStart
  \/ SecondAction
  \/ SecondTick

SpecTwin == InitTwin /\ [][NextTwin]_vars

\* ------------------------------------------------------------------------
\* The turbo specification: a GameEngine driven through whole turbo events
\* by a narrow alphabet of actions
\* ------------------------------------------------------------------------
MaxTurboTicks == 12   \* processTick calls explored
MaxTurboActs == 4     \* state-changing executeAction calls explored

LowStartPrice == 105  \* a start price of $0.0105, within a turbo of the price floor

\* start prices explored: $100, and one from which a downward turbo crosses
\* the floor of the normal path
TurboStartPrices == {Dollars(100), LowStartPrice}

\* a large position whose liquidation earns the points, a small one the
\* points can pay several turbos for
TurboOpenActions ==
  {[type |-> "open_position", direction |-> "long", sizePercent |-> 500, leverage |-> 500000],
   [type |-> "open_position", direction |-> "long", sizePercent |-> 1000, leverage |-> 2000]}

InitTurbo ==
  /\ input = Null
  /\ \E s \in EngineSeedSet, startPrice \in TurboStartPrices :
       LET config == [EngineConfig EXCEPT !.seed = s, !.initialPrice = startPrice]
       IN \E seed \in EngineSeeds(config) : eng = GameEngineNew(config, seed)
  /\ ctl = [acts |-> 0, triggered |-> FALSE, sinceTrigger |-> 0, turboTicks |-> 0]
  /\ twin = Null
  /\ result = Null
  /\ last = [op |-> "new", changed |-> FALSE]

\* a call of processTick.  Once a trigger_simple_turbo has succeeded, ctl
\* counts the processTick calls since the last one (sinceTrigger) and those
\* of them that drew from no layer stream, i.e. took the turbo path
\* (turboTicks)
TurboTick ==
  /\ eng.state.tickCount < MaxTurboTicks
  /\ eng' = processTick(eng)
  /\ last' = [op |-> "tick", changed |-> TRUE]
  /\ ctl' = IF ~ctl.triggered THEN ctl
            ELSE [ctl EXCEPT !.sinceTrigger = @ + 1,
                             !.turboTicks = IF eng'.rng = eng.rng THEN @ + 1 ELSE @]
  /\ UNCHANGED <<input, twin, result>>

\* a call of executeAction(a)
TurboAct(a) ==
  /\ ctl.acts < MaxTurboActs
  /\ eng' = executeAction(eng, a)
  /\ last' = [op |-> a.type, changed |-> (eng' # eng)]
  /\ ctl' = IF eng' = eng THEN ctl
            ELSE IF a.type = "trigger_simple_turbo"
            THEN [acts |-> ctl.acts + 1, triggered |-> TRUE, sinceTrigger |-> 0,
                  turboTicks |-> 0]
            ELSE [ctl EXCEPT !.acts = @ + 1]
  /\ UNCHANGED <<input, twin, result>>

TurboOpen == \E a \in TurboOpenActions : a.type = "open_position" /\ TurboAct(a)
TurboTrigger ==
  \E a \in {[type |-> "trigger_simple_turbo"]} : a.type = "trigger_simple_turbo" /\ TurboAct(a)

NextTurbo ==
  \/ TurboTick
  \/ TurboOpen
  \/ TurboTrigger

SpecTurbo == InitTurbo /\ [][NextTurbo]_vars

\* ---------------------------------------------------------------------
\* Two LayeredPriceEngine instances, each generating its own price series
\* ---------------------------------------------------------------------

SeriesTicks == 6

\* 168 is a master seed whose volatility stream signals a spike on the third
\* and on the fourth tick
SeriesSeeds == {<<0, 282>>, <<0, 498>>, <<0, 168>>, CombinedSeed}

SeriesStartPrices == {Dollars(100), Dollars(50)}

\* a constructor that leaves the magnitude stream to an unseeded source
PriceEnginesUnseededMagnitude(masterSeed) ==
  {[PriceEngineNew(masterSeed) EXCEPT !.magnitude = RngNew(r)] : r \in RandomSeeds}

\* the instances that new LayeredPriceEngine(masterSeed) can return: the
\* constructor reads nothing but its argument
PriceEngines(masterSeed) == {PriceEngineNew(masterSeed)}

\* generateSeries before its loop: prices = [startPrice], state = initial
SeriesBegun(rng, startPrice) ==
  [rng |-> rng, ls |-> createInitialState(startPrice), prices |-> <<startPrice>>]

\* one iteration of the loop of generateSeries
SeriesStep(g) ==
  LET tick == nextTick(g.ls, g.rng)
  IN [rng |-> tick.rng, ls |-> tick.newState,
      prices |-> Append(g.prices, tick.newPrice)]

\* eng and twin are the two instances; ctl keeps the constructor argument
InitSeries ==
  /\ input = Null
  /\ result = Null
  /\ \E m \in SeriesSeeds, p \in SeriesStartPrices :
       /\ ctl = [masterSeed |-> m, startPrice |-> p]
       /\ \E a \in PriceEngines(m), b \in PriceEngines(m) :
            /\ eng = SeriesBegun(a, p)
            /\ twin = SeriesBegun(b, p)
  /\ last = [op |-> "new", changed |-> FALSE]

SeriesStepFirst ==
  /\ Len(eng.prices) <= SeriesTicks
  /\ eng' = SeriesStep(eng)
  /\ last' = [op |-> "first", changed |-> TRUE]
  /\ UNCHANGED <<input, ctl, twin, result>>

SeriesStepSecond ==
  /\ Len(twin.prices) <= SeriesTicks
  /\ twin' = SeriesStep(twin)
  /\ last' = [op |-> "second", changed |-> TRUE]
  /\ UNCHANGED <<input, ctl, eng, result>>

NextSeries ==
  \/ SeriesStepFirst
  \/ SeriesStepSecond

SpecSeries == InitSeries /\ [][NextSeries]_vars

\* ---------------------------------------------------------------------
\* The options specification: a GameEngine whose player buys options in the
\* first ticks of the session and then lets them run to expiry
\* ---------------------------------------------------------------------
MaxOptionTicks == 51   \* processTick calls explored
MaxOptionActs == 2     \* successful buy_option calls explored
LastBuyTick == 1       \* the player acts while tickCount is at most this

\* one-second options either way, a five-second call and a five-minute put
OptionBuyActions ==
  {[type |-> "buy_option", direction |-> "call", premium |-> Dollars(10),
    multiplier |-> 2, durationSeconds |-> 1],
   [type |-> "buy_option", direction |-> "put", premium |-> Dollars(10),
    multiplier |-> 2, durationSeconds |-> 1],
   [type |-> "buy_option", direction |-> "call", premium |-> Dollars(20),
    multiplier |-> 5, durationSeconds |-> 5],
   [type |-> "buy_option", direction |-> "put", premium |-> Dollars(5),
    multiplier |-> 25, durationSeconds |-> 300]}

\* ctl.bought lists, for every option bought, the action that bought it and
\* the tickCount at its purchase
InitOptions ==
  /\ input = Null
  /\ \E s \in EngineSeedSet :
       LET config == [EngineConfig EXCEPT !.seed = s]
       IN \E seed \in EngineSeeds(config) : eng = GameEngineNew(config, seed)
  /\ ctl = [acts |-> 0, bought |-> <<>>]
  /\ twin = Null
  /\ result = Null
  /\ last = [op |-> "new", changed |-> FALSE]

\* a call of processTick
OptionsTick ==
  /\ eng.state.tickCount < MaxOptionTicks
  /\ eng' = processTick(eng)
  /\ last' = [op |-> "tick", changed |-> TRUE]
  /\ UNCHANGED <<input, ctl, twin, result>>

\* a call of executeAction with a buy_option action
OptionsBuy ==
  /\ ctl.acts < MaxOptionActs
  /\ eng.state.tickCount <= LastBuyTick
  /\ \E a \in OptionBuyActions :
       /\ a.type = "buy_option"
       /\ eng' = executeAction(eng, a)
       /\ last' = [op |-> a.type, changed |-> (eng' # eng)]
       /\ ctl' = IF eng' = eng THEN ctl
                 ELSE [acts |-> ctl.acts + 1,
                       bought |-> Append(ctl.bought,
                                        [tick |-> eng.state.tickCount, action |-> a])]
  /\ UNCHANGED <<input, twin, result>>

NextOptions ==
  \/ OptionsTick
  \/ OptionsBuy

SpecOptions == InitOptions /\ [][NextOptions]_vars

\* ---------------------------------------------------------------------
\* The replay specification: replaySession on its own, on logs whose tick
\* numbers the caller chose freely, with and without an expected tick count
\* ---------------------------------------------------------------------

\* action logs: empty; open then close; one entry 101 ticks before the start;
\* an entry one tick before the start ahead of an open at tick 0; the same
\* open logged twice at tick 0 and a close at tick 2; an open and a close at
\* tick 5, after the expected tick counts explored
ReplayLogs ==
  {<<>>,
   <<Entry(0, OpenLong, 1), Entry(1, [type |-> "close_position"], 2)>>,
   <<Entry(-101, [type |-> "close_position"], 1)>>,
   <<Entry(0, OpenLong, 2), Entry(-1, OpenLong, 1)>>,
   <<Entry(0, OpenLong, 1), Entry(2, [type |-> "close_position"], 3), Entry(0, OpenLong, 1)>>,
   <<Entry(0, OpenLong, 1), Entry(5, [type |-> "close_position"], 2)>>}

\* no expected final state, one without a tick count, one asking for 3 ticks
ReplayInputs ==
  {[houseSeed |-> HouseSeed, houseCommitHash |-> hashSeed(HouseSeed),
    playerSeed |-> NoNumber, playerCommitHash |-> NoHash, combinedSeed |-> NoNumber,
    config |-> EngineConfig, actionLog |-> log, expectedFinalState |-> ex] :
     log \in ReplayLogs,
     ex \in {Null, [capital |-> Dollars(100)], [capital |-> Dollars(100), tickCount |-> 3]}}

InitReplay ==
  /\ input \in ReplayInputs
  /\ eng = Null
  /\ ctl = [pc |-> "replaySession"]
  /\ twin = Null
  /\ result = Null
  /\ last = [op |-> "call", changed |-> FALSE]

\* replaySession(input), up to its loop
ReplayBegin ==
  /\ ctl.pc = "replaySession"
  /\ \E seed \in EngineSeeds(ReplayConfig(input)) :
       \E run \in {ReplayStart(input, seed)} :
         /\ eng' = run.eng
         /\ ctl' = run.loc
  /\ last' = [op |-> "replaySession", changed |-> FALSE]
  /\ UNCHANGED <<input, twin, result>>

\* the return of replaySession
ReplayReturn ==
  /\ ctl.pc = "returned"
  /\ result' = ReplayResult([eng |-> eng, loc |-> ctl])
  /\ ctl' = [ctl EXCEPT !.pc = "done"]
  /\ last' = [op |-> "return", changed |-> FALSE]
  /\ UNCHANGED <<input, eng, twin>>

NextReplay ==
  \/ ReplayBegin
  \/ ReplayActionStep
  \/ ReplayTickStep
  \/ ReplayReturn

SpecReplay == InitReplay /\ [][NextReplay]_vars

\* ---------------------------------------------------------------------
\* The library functions called on their own: combineSeeds,
\* verifySeedCommitment, hashSeed(seed, label) and a SeededRNG object
\* ---------------------------------------------------------------------

MaxRngCalls == 4

\* 0, 100, 12345, 282, 0xAAAAAAAA, 0x55555555, 0xFFFFFFFF and a seed with
\* both halves set
SeedValues ==
  {<<0, 0>>, <<0, 100>>, <<0, 12345>>, <<0, 282>>, <<43690, 43690>>,
   <<21845, 21845>>, <<65535, 65535>>, <<40000, 7>>}

\* seeds given to new SeededRNG: 0, 1, 282, 0xFFFFFFFF and -1
RngSeedValues == {<<0, 0>>, <<0, 1>>, <<0, 282>>, <<65535, 65535>>, <<-1, 65535>>}

\* labels given to hashSeed: the five of the price engine, '' and '￿'
SeedLabels ==
  {LabelSign, LabelMagnitude, LabelVolatility, LabelMomentum, LabelTurbo,
   <<>>, <<65535>>}

\* commitment strings: the hashes of the seeds, the hash of '', and ''
CommitHashes == {hashSeed(s) : s \in SeedValues} \cup {sha256(<<>>), NoHash}

\* eng is a SeededRNG object with the number of next() calls made on it and
\* the last value returned; input and result are the arguments and the
\* return value of the library call of this run
InitLib ==
  /\ input = Null
  /\ result = Null
  /\ \E seed \in RngSeedValues :
       eng = [state |-> RngNew(seed), calls |-> 0, value |-> NoNumber]
  /\ ctl = Null
  /\ twin = Null
  /\ last = [op |-> "new", changed |-> FALSE]

\* rng.next()
LibRngNext ==
  /\ eng.calls < MaxRngCalls
  /\ \E r \in {RngNext(eng.state)} :
       eng' = [state |-> r[2], calls |-> eng.calls + 1, value |-> r[1]]
  /\ last' = [op |-> "next", changed |-> TRUE]
  /\ UNCHANGED <<input, ctl, twin, result>>

\* combineSeeds(seed1, seed2)
LibCombineSeeds ==
  /\ input = Null
  /\ \E a \in SeedValues, b \in SeedValues :
       /\ input' = [fn |-> "combineSeeds", seed1 |-> a, seed2 |-> b]
       /\ result' = combineSeeds(a, b)
  /\ last' = [op |-> "combineSeeds", changed |-> TRUE]
  /\ UNCHANGED <<eng, ctl, twin>>

\* verifySeedCommitment(seed, commitHash)
LibVerifySeedCommitment ==
  /\ input = Null
  /\ \E s \in SeedValues, h \in CommitHashes :
       /\ input' = [fn |-> "verifySeedCommitment", seed |-> s, commitHash |-> h]
       /\ result' = verifySeedCommitment(s, h)
  /\ last' = [op |-> "verifySeedCommitment", changed |-> TRUE]
  /\ UNCHANGED <<eng, ctl, twin>>

\* hashSeed(seed, label)
LibHashSeedLabel ==
  /\ input = Null
  /\ \E m \in SeedValues, l \in SeedLabels :
       /\ input' = [fn |-> "hashSeed", seed |-> m, label |-> l]
       /\ result' = HashSeedLabel(m, l)
  /\ last' = [op |-> "hashSeed", changed |-> TRUE]
  /\ UNCHANGED <<eng, ctl, twin>>

\* every option a player can buy: 2 directions x 5 multipliers x 5 durations
StrikeOptionActions ==
  {[type |-> "buy_option", direction |-> d, premium |-> Dollars(10),
    multiplier |-> m, durationSeconds |-> t] :
     d \in {"call", "put"}, m \in {2, 5, 10, 25, 100}, t \in {1, 5, 30, 60, 300}}

\* executeAction(buy_option) on a new GameEngine.  gameEngine.ts imports
\* calculateOptionStrike from '../engine/optionPricing.js'; the repository
\* holds two copies of that function with different tables, and which of
\* them the build links is not determined by the sources.  result is the
\* option created.
LibBuyOption ==
  /\ input = Null
  /\ \E a \in StrikeOptionActions, copy \in {"documented", "recalibrated"},
        e \in {GameEngineNew([EngineConfig EXCEPT !.seed = HouseSeed], HouseSeed)} :
       /\ input' = [fn |-> "buy_option", action |-> a, copy |-> copy,
                    currentPrice |-> e.state.currentPrice]
       /\ result' = OptionBought(e, a,
                       IF copy = "documented"
                       THEN calculateOptionStrike(e.state.currentPrice, a.direction,
                                                  a.multiplier, a.durationSeconds)
                       ELSE calculateOptionStrikeRecalibrated(
                              e.state.currentPrice, a.direction, a.multiplier,
                              a.durationSeconds, FALSE)).state.options[1]
  /\ last' = [op |-> "buy_option", changed |-> TRUE]
  /\ UNCHANGED <<eng, ctl, twin>>

NextLib ==
  \/ LibRngNext
  \/ LibCombineSeeds
  \/ LibVerifySeedCommitment
  \/ LibHashSeedLabel
  \/ LibBuyOption

SpecLib == InitLib /\ [][NextLib]_vars

\* ------------------------------------------------------------------------
\* Properties
\* ------------------------------------------------------------------------

\* bitwise XOR of two naturals below 2^n, bit by bit
RECURSIVE BitXor(_, _, _)
BitXor(a, b, n) ==
  IF n = 0 THEN 0
  ELSE (((a % 2) + (b % 2)) % 2) + 2 * BitXor(a \div 2, b \div 2, n - 1)

\* houseSeed XOR playerSeed as an unsigned 32-bit value
XorU32(a, b) == <<BitXor(a[1] % W16, b[1] % W16, 16), BitXor(a[2], b[2], 16)>>

HasError(kind) == \E i \in 1..Len(result.errors) : result.errors[i].kind = kind

\* C1: two invocations of replaySession on the same input return the same
\* finalState in every field, the same ticksProcessed and the same
\* actionsExecuted.
C1_ReplayDeterministic ==
  (ctl.pc = "returned" /\ twin.loc.pc = "returned")
    => /\ eng.state = twin.eng.state
       /\ ctl.ticksProcessed = twin.loc.ticksProcessed
       /\ ctl.actionsExecuted = twin.loc.actionsExecuted

\* both invocations have returned after executing actions and ticks
C1_BothReturned ==
  /\ ctl.pc = "returned"
  /\ twin.loc.pc = "returned"
  /\ ctl.actionsExecuted = 2
  /\ ctl.ticksProcessed > ReplayTicks
  /\ input.combinedSeed # NoNumber

\* C2: a logged action without effect is not fatal: when the commitments are
\* all valid and the expected state (if any) matches, valid is true.
C2_NoEffectNotFatal ==
  (/\ result # Null
   /\ result.houseCommitmentValid
   /\ result.playerCommitmentValid
   /\ result.seedCombinationValid
   /\ ("stateMatch" \in DOMAIN result => result.stateMatch))
    => result.valid

\* C3: valid is true exactly when errors is empty, and valid implies the
\* three commitment flags and excludes stateMatch = false.
C3_ValidIffNoErrors ==
  result # Null
    => /\ result.valid <=> (Len(result.errors) = 0)
       /\ result.valid => /\ result.houseCommitmentValid
                          /\ result.playerCommitmentValid
                          /\ result.seedCombinationValid
                          /\ ("stateMatch" \in DOMAIN result => result.stateMatch)

\* a valid verdict on a session with executed actions and a compared state
C3_ValidVerdict ==
  /\ result # Null
  /\ result.valid
  /\ result.actionsExecuted = 2
  /\ "stateMatch" \in DOMAIN result
  /\ input.playerSeed # NoNumber

\* C4: a valid verdict means the replay engine was built from houseSeed when
\* no player seed is given, and from houseSeed XOR playerSeed otherwise.
C4_ValidSeedBound ==
  (result # Null /\ result.valid)
    => eng.config.seed = IF input.playerSeed = NoNumber THEN input.houseSeed
                         ELSE XorU32(input.houseSeed, input.playerSeed)

\* C5: houseCommitmentValid is true exactly when the hash of houseSeed is
\* houseCommitHash; when false an error is recorded, valid is false and the
\* replay results are still produced.
C5_HouseCommitment ==
  result # Null
    => /\ result.houseCommitmentValid <=> (sha256(NumberToString(input.houseSeed))
                                           = input.houseCommitHash)
       /\ ~result.houseCommitmentValid
            => /\ HasError("house commitment")
               /\ ~result.valid
               /\ result.replayedState = ClientStateOf(eng.state)
               /\ result.ticksProcessed = eng.state.tickCount
               /\ result.actionsExecuted = ctl.actionsExecuted

\* a verdict with a house mismatch after a replay that executed actions
C5_HouseMismatch ==
  /\ result # Null
  /\ ~result.houseCommitmentValid
  /\ result.ticksProcessed > 0
  /\ result.actionsExecuted = 2

\* C6: with a playerSeed in the input, playerCommitmentValid is true only if
\* the hash of playerSeed is playerCommitHash; otherwise an error is
\* recorded and valid is false.
C6_PlayerCommitmentChecked ==
  (result # Null /\ input.playerSeed # NoNumber)
    => IF sha256(NumberToString(input.playerSeed)) = input.playerCommitHash
       THEN TRUE
       ELSE /\ ~result.playerCommitmentValid
            /\ HasError("player commitment")
            /\ ~result.valid

\* C7: with playerSeed and combinedSeed both in the input,
\* seedCombinationValid is true exactly when combinedSeed is
\* houseSeed XOR playerSeed as an unsigned 32-bit value; a mismatch records
\* an error and makes valid false.
C7_SeedCombination ==
  (result # Null /\ input.playerSeed # NoNumber /\ input.combinedSeed # NoNumber)
    => /\ result.seedCombinationValid
            <=> (input.combinedSeed = XorU32(input.houseSeed, input.playerSeed))
       /\ ~result.seedCombinationValid => (HasError("combined seed") /\ ~result.valid)

\* a verdict that accepted a combined seed whose top bit is set
C7_CombinationAccepted ==
  /\ result # Null
  /\ input.playerSeed # NoNumber
  /\ input.combinedSeed # NoNumber
  /\ input.combinedSeed[1] >= 32768
  /\ result.seedCombinationValid

\* C8: capital is never negative after a processTick or executeAction call.
C8_CapitalNonNegative == eng.state.capital >= 0

PositionEquity(st) ==
  st.position.size
  + calculateLeveragedPnL(st.position.entryPrice, st.currentPrice, st.position.direction,
                          st.position.size, st.position.leverage)
  - st.position.cumulativeFunding

PositionNotional(st) == MulDiv(st.position.size, st.position.leverage, MILLI)

\* the precondition failures listed for each action type
FailsPrecondition(st, a) ==
  CASE a.type = "open_position" ->
         st.position # Null \/ Min(MulDiv(st.capital, a.sizePercent, MILLI), st.capital) <= 0
    [] a.type = "close_position" -> st.position = Null
    [] a.type = "buy_shield" ->
         \/ st.position = Null
         \/ st.turboPoints < MulDiv(PositionNotional(st), SHIELD_FLAT_RATE, RATE)
    [] a.type = "buy_option" -> a.premium > st.capital
    [] a.type = "trigger_simple_turbo" ->
         \/ st.position = Null
         \/ (st.simpleTurbo # Null /\ st.simpleTurbo.active)
         \/ st.turboPoints < MulDiv(PositionNotional(st), SIMPLE_TURBO_COST_RATE, RATE)
    [] a.type = "relever" ->
         \/ st.position = Null
         \/ PositionEquity(st) <= 0
         \/ PositionEquity(st)
            - MulDiv(MulDiv(PositionEquity(st), a.targetLeverage, MILLI), SPREAD_RATE, RATE) <= 0
    [] a.type = "add_equity" ->
         \/ st.position = Null
         \/ PositionEquity(st) <= 0
         \/ MulDiv(st.capital, a.additionalPercent, MILLI) <= 0

\* C10: an action that fails its precondition leaves the game state and
\* every PRNG stream unchanged.
C10_FailedActionIsNoOp ==
  \A a \in PlayerActions : FailsPrecondition(eng.state, a) => executeAction(eng, a) = eng

\* a shield purchase was refused on a held position for lack of points
C10_ShieldRefused ==
  /\ last = [op |-> "buy_shield", changed |-> FALSE]
  /\ eng.state.position # Null
  /\ eng.state.turboPoints < MulDiv(PositionNotional(eng.state), SHIELD_FLAT_RATE, RATE)

\* C11: there is at most one position: open_position on a held position
\* leaves the position, capital, houseBankroll, totalVolumeTraded and
\* tradeCount as they were.
C11_SinglePosition ==
  \A a \in OpenActions :
    eng.state.position # Null
      => LET after == executeAction(eng, a).state
         IN /\ after.position = eng.state.position
            /\ after.capital = eng.state.capital
            /\ after.houseBankroll = eng.state.houseBankroll
            /\ after.totalVolumeTraded = eng.state.totalVolumeTraded
            /\ after.tradeCount = eng.state.tradeCount

\* an open_position was executed on a held position with capital to spend
C11_OpenOnHeld ==
  /\ last = [op |-> "open_position", changed |-> FALSE]
  /\ eng.state.position # Null
  /\ eng.state.capital >= Dollars(1)

\* entry a comes strictly before entry b in (tickNumber, timestamp) order
KeyLess(a, b) ==
  \/ a.tickNumber < b.tickNumber
  \/ (a.tickNumber = b.tickNumber /\ a.timestamp < b.timestamp)

\* s is log rearranged into ascending key order, equal keys in log order
IsStableSortOf(s, log) ==
  /\ Len(s) = Len(log)
  /\ \E p \in [1..Len(log) -> 1..Len(log)] :
       /\ \A i, j \in 1..Len(log) :
            i < j => \/ KeyLess(log[p[i]], log[p[j]])
                     \/ (~KeyLess(log[p[j]], log[p[i]]) /\ p[i] < p[j])
       /\ \A i \in 1..Len(log) : s[i] = log[p[i]]

\* a step of the replay that consumes a log entry executes the next entry of
\* the sorted log, whose tickNumber is the number of ticks processed so far
ReplayStepOrdered ==
  (ctl.pc = "loop" /\ ctl'.actionIndex # ctl.actionIndex)
    => /\ ctl'.actionIndex = ctl.actionIndex + 1
       /\ ctl.sortedActions[ctl'.actionIndex].tickNumber = ctl.ticksProcessed
       /\ ctl.sortedActions[ctl'.actionIndex].tickNumber = eng.state.tickCount
       /\ eng' = executeAction(eng, ctl.sortedActions[ctl'.actionIndex].action)
       /\ eng'.state.tickCount = eng.state.tickCount
       /\ ctl'.ticksProcessed = ctl.ticksProcessed

\* C12: the replay executes the logged actions in ascending
\* (tickNumber, timestamp) order, equal keys in log order, and an action with
\* tickNumber t is executed after exactly t processTick calls.
C12_ReplayOrder ==
  /\ [](ctl.pc \in {"loop", "returned", "done"}
          => IsStableSortOf(ctl.sortedActions, input.actionLog))
  /\ [][ReplayStepOrdered]_vars

\* the replay has returned after executing an unsorted log whose two
\* entries of tick 0 have equal keys
C12_UnsortedLogReplayed ==
  /\ ctl.pc = "returned"
  /\ ctl.sortedActions # input.actionLog
  /\ ctl.actionIndex = 3
  /\ ctl.sortedActions[1].action.type = "open_position"
  /\ ctl.sortedActions[2].action.type = "buy_shield"
  /\ ctl.sortedActions[3].tickNumber = LogTicks

\* C13: with expectedFinalState.tickCount = N the replay processes exactly N
\* ticks and the replayed tickCount is N; in every replay ticksProcessed
\* equals the tickCount of the final state.
C13_ExactTickCount ==
  ctl.pc \in {"loop", "returned", "done"}
    => /\ ctl.ticksProcessed = eng.state.tickCount
       /\ (/\ ctl.pc # "loop"
           /\ input.expectedFinalState # Null
           /\ "tickCount" \in DOMAIN input.expectedFinalState)
            => ctl.ticksProcessed = input.expectedFinalState.tickCount

\* a replay of a log with executed actions returned after the expected ticks
C13_ExpectedTicksReplayed ==
  /\ ctl.pc = "returned"
  /\ input.expectedFinalState # Null
  /\ "tickCount" \in DOMAIN input.expectedFinalState
  /\ input.expectedFinalState.tickCount = ReplayTicks
  /\ eng.state.tickCount = ReplayTicks
  /\ ctl.actionsExecuted = 2

\* the fields of the expected state that differ from the replayed state
MismatchedFields ==
  LET exp == input.expectedFinalState
      act == eng.state
      Differs(a, b) == Abs(a - b) * 10000 > MONEY
  IN {f \in {"Capital", "Tick count", "Total profit", "Total losses"} :
        CASE f = "Capital" -> Differs(act.capital, exp.capital)
          [] f = "Tick count" ->
               "tickCount" \in DOMAIN exp /\ act.tickCount # exp.tickCount
          [] f = "Total profit" ->
               "totalProfit" \in DOMAIN exp /\ Differs(act.totalProfit, exp.totalProfit)
          [] f = "Total losses" ->
               "totalLosses" \in DOMAIN exp /\ Differs(act.totalLosses, exp.totalLosses)}

\* the fields the verdict's state-mismatch errors name
StateErrorFields ==
  {result.errors[i].field :
     i \in {j \in 1..Len(result.errors) : result.errors[j].kind = "state mismatch"}}

\* C14: with an expected state, capital is always compared and tickCount,
\* totalProfit and totalLosses only when provided, a numeric field
\* mismatching exactly when it is off by more than 1e-4; stateMatch is true
\* iff nothing mismatches and each mismatch is an error that makes valid
\* false. Without an expected state stateMatch is undefined and there is no
\* state error.
C14_StateComparison ==
  result # Null
    => IF input.expectedFinalState = Null
       THEN "stateMatch" \notin DOMAIN result /\ StateErrorFields = {}
       ELSE /\ "stateMatch" \in DOMAIN result
            /\ result.stateMatch = (MismatchedFields = {})
            /\ StateErrorFields = MismatchedFields
            /\ MismatchedFields # {} => ~result.valid

\* a verdict whose capital, total profit and total losses all mismatch
C14_ThreeMismatches ==
  /\ result # Null
  /\ "stateMatch" \in DOMAIN result
  /\ ~result.stateMatch
  /\ result.stateDifferences = <<"Capital", "Total profit", "Total losses">>

\* the states of the four price-layer streams
LayerStreams(rng) == <<rng.sign, rng.magnitude, rng.volatility, rng.momentum>>

\* the next processTick takes the turbo path
OnTurboPath(e) ==
  e.state.layeredState.turboActive /\ e.state.layeredState.turboTicksRemaining > 0

\* C15: the turbo stream is advanced only by startTurbo, by exactly one draw
\* per successful trigger_simple_turbo, and never by processTick; the sign,
\* magnitude, volatility and momentum streams are advanced by no
\* executeAction and by no turbo-path tick.
C15_StreamFrames ==
  /\ processTick(eng).rng.turbo = eng.rng.turbo
  /\ OnTurboPath(eng) => LayerStreams(processTick(eng).rng) = LayerStreams(eng.rng)
  /\ \A a \in PlayerActions :
       LET after == executeAction(eng, a)
       IN /\ LayerStreams(after.rng) = LayerStreams(eng.rng)
          /\ after.rng.turbo =
               IF a.type = "trigger_simple_turbo" /\ after.state # eng.state
               THEN WAdd(eng.rng.turbo, MulberryIncrement)
               ELSE eng.rng.turbo

\* a turbo-path tick has run after a successful trigger, with normal-path
\* ticks before it
C15_TurboTickRun ==
  /\ last.op = "tick"
  /\ OnTurboPath(eng)
  /\ eng.state.layeredState.turboTicksRemaining < TurboTicks
  /\ eng.state.tickCount > TurboTicks

\* C18: layeredState.turboActive is true iff turboTicksRemaining > 0.
C18_TurboFlagMatchesCount ==
  eng.state.layeredState.turboActive <=> (eng.state.layeredState.turboTicksRemaining > 0)

\* the last tick of a turbo has just run: the flag is down, the count is 0
\* and the price has moved by the turbo's 10 percent
C18_TurboEnded ==
  /\ last.op = "tick"
  /\ eng.state.tickCount >= TurboTicks
  /\ ~eng.state.layeredState.turboActive
  /\ eng.state.layeredState.turboTicksRemaining = 0
  /\ eng.state.simpleTurbo = Null
  /\ Abs(eng.state.currentPrice - eng.config.initialPrice) * 100 >= 9 * eng.config.initialPrice

\* C19: the price is strictly positive after every tick, on the normal path
\* and on the turbo path.
C19_PricePositive ==
  /\ eng.state.currentPrice > 0
  /\ eng.state.layeredState.price > 0
  /\ eng.state.layeredState.meanPrice > 0

\* a downward turbo tick has taken the price below the floor of the normal
\* path
C19_BelowFloor ==
  /\ last.op = "tick"
  /\ eng.state.layeredState.turboDirection = -1
  /\ eng.state.layeredState.turboTicksRemaining < TurboTicks - 1
  /\ eng.state.currentPrice < PriceFloor

\* C16: the actions of a session do not influence the background price
\* stream: after k normal-path ticks the four layer streams are where the
\* action-free session of the same seed has them after k ticks, and without
\* a successful trigger_simple_turbo the price and the layered state after n
\* ticks are those of the action-free session.
C16_PriceIndependentOfActions ==
  /\ LayerStreams(eng.rng) = LayerStreams(twin.rng)
  /\ (twin.ls.tick = eng.state.tickCount /\ ~eng.state.layeredState.turboActive)
       => /\ eng.state.layeredState = twin.ls
          /\ eng.state.currentPrice = twin.ls.price

\* two ticks have run in a session that executed actions between them and
\* triggered no turbo
C16_ActionsBetweenTicks ==
  /\ last.op = "tick"
  /\ eng.state.tickCount = 2
  /\ twin.ls.tick = 2
  /\ ~eng.state.layeredState.turboActive
  /\ ctl.acts = MaxActs
  /\ Len(eng.state.options) > 0
  /\ eng.state.position # Null

C20_ClosePosition ==
  eng.state.position # Null =>
    LET st == eng.state
        pos == st.position
        pnl == calculateLeveragedPnL(pos.entryPrice, st.currentPrice, pos.direction,
                                     pos.size, pos.leverage)
        closed == executeAction(eng, [type |-> "close_position"]).state
    IN /\ closed.houseBankroll - st.houseBankroll = pos.cumulativeFunding - pnl
       /\ closed.capital - st.capital = Max(0, pos.size + pnl - pos.cumulativeFunding)
       /\ closed.position = Null
       /\ closed.shieldTicksRemaining = 0

\* a shielded position that has accrued funding and whose profit exceeds it:
\* closing it takes money out of the house
C20_ShieldedProfitableHeld ==
  /\ eng.state.position # Null
  /\ eng.state.shieldTicksRemaining > 0
  /\ eng.state.position.cumulativeFunding > 0
  /\ calculateLeveragedPnL(eng.state.position.entryPrice, eng.state.currentPrice,
                           eng.state.position.direction, eng.state.position.size,
                           eng.state.position.leverage)
       > eng.state.position.cumulativeFunding

\* C21: after any successful relever or add_equity the leverage of the
\* position is at least 1; a relever with targetLeverage < 1 changes nothing.
C21_LeverageAtLeastOne ==
  /\ (last.op \in {"relever", "add_equity"} /\ last.changed)
       => eng.state.position # Null /\ eng.state.position.leverage >= MILLI
  /\ \A a \in ReleverActions :
       a.targetLeverage < MILLI => executeAction(eng, a) = eng

\* an add_equity has just succeeded on a position of leverage 1 and left the
\* leverage at the clamp
C21_LeverageClamped ==
  /\ last.op = "add_equity"
  /\ last.changed
  /\ eng.state.position.leverage = MILLI
  /\ eng.state.position.size > eng.state.capital

\* C22: a successful relever or add_equity leaves cumulativeFunding = 0 and
\* realizes the funding of the closed segment to the house: houseBankroll
\* changes by funding - pnl for add_equity and by spreadCost + funding - pnl
\* for relever, where pnl is the leveraged P&L at currentPrice and spreadCost
\* is SPREAD_RATE of the new notional (equity times the new leverage).
C22_FundingRealized ==
  [][(last'.op \in {"relever", "add_equity"} /\ last'.changed) =>
       LET st == eng.state
           pos == st.position
           pnl == calculateLeveragedPnL(pos.entryPrice, st.currentPrice, pos.direction,
                                        pos.size, pos.leverage)
           funding == pos.cumulativeFunding
           equity == pos.size + pnl - funding
           after == eng'.state
           spreadCost == MulDiv(MulDiv(equity, after.position.leverage, MILLI),
                                SPREAD_RATE, RATE)
       IN /\ pos # Null
          /\ after.position # Null
          /\ after.position.cumulativeFunding = 0
          /\ last'.op = "add_equity" =>
               after.houseBankroll - st.houseBankroll = funding - pnl
          /\ last'.op = "relever" =>
               after.houseBankroll - st.houseBankroll = spreadCost + funding - pnl
     ]_vars

\* an add_equity has closed a funded segment of a position held for two ticks
C22_FundedSegmentsClosed ==
  /\ last.op = "add_equity"
  /\ last.changed
  /\ eng.state.tickCount = 2
  /\ eng.state.position.cumulativeFunding = 0
  /\ eng.state.position.totalFundingPaid > 0
  /\ eng.state.position.openTick = 0

\* the truncation that the fixed-point size, notional and spread cost of an
\* open can lose against the requested budget, in units of 1/MONEY
OpenTruncation(a) == 3 + MulDiv(a.leverage, SPREAD_RATE, MILLI) \div RATE

IsUint32(n) == n[1] \in 0..(W16 - 1) /\ n[2] \in 0..(W16 - 1)

\* C24: combineSeeds(a, b) is a XOR b as an unsigned 32-bit value for all
\* unsigned 32-bit a and b; it is commutative, and involutive:
\* combineSeeds(combineSeeds(a, b), b) = a.
C24_CombineSeedsXor ==
  (input # Null /\ input.fn = "combineSeeds") =>
    /\ IsUint32(input.seed1) /\ IsUint32(input.seed2)
    /\ result = XorU32(input.seed1, input.seed2)
    /\ IsUint32(result)
    /\ result = combineSeeds(input.seed2, input.seed1)
    /\ combineSeeds(result, input.seed2) = input.seed1

\* combineSeeds(0xAAAAAAAA, 0x55555555) has returned 0xFFFFFFFF
C24_AllBitsCombined ==
  /\ input # Null /\ input.fn = "combineSeeds"
  /\ input.seed1 = <<43690, 43690>>
  /\ input.seed2 = <<21845, 21845>>
  /\ result = <<65535, 65535>>

\* the number written by a string of decimal digits
RECURSIVE ParseDecimal(_, _, _)
ParseDecimal(str, i, acc) ==
  IF i > Len(str) THEN acc
  ELSE ParseDecimal(str, i + 1, Norm(acc[1] * 10, acc[2] * 10 + (str[i] - 48)))

\* str is the decimal string of the non-negative integer n
IsDecimalOf(str, n) ==
  /\ Len(str) >= 1
  /\ \A i \in 1..Len(str) : str[i] \in 48..57
  /\ Len(str) > 1 => str[1] # 48
  /\ ParseDecimal(str, 1, <<0, 0>>) = n

\* C25: verifySeedCommitment(seed, h) is true if and only if h is
\* hashSeed(seed), the SHA-256 digest of the decimal string of seed; it is
\* true for hashSeed(seed) and false for the hash of a different seed.
C25_CommitmentIffHash ==
  (input # Null /\ input.fn = "verifySeedCommitment") =>
    /\ result \in BOOLEAN
    /\ \E str \in {hashSeed(input.seed)[2]} :
         /\ IsDecimalOf(str, input.seed)
         /\ result <=> (input.commitHash = sha256(str))
    /\ verifySeedCommitment(input.seed, hashSeed(input.seed))
    /\ \A t \in SeedValues :
         t # input.seed => ~verifySeedCommitment(input.seed, hashSeed(t))

\* verifySeedCommitment(4294967295, sha256('4294967295')) has returned true
C25_TenDigitSeedVerified ==
  /\ input # Null /\ input.fn = "verifySeedCommitment"
  /\ input.seed = <<65535, 65535>>
  /\ input.commitHash = sha256(<<52, 50, 57, 52, 57, 54, 55, 50, 57, 53>>)
  /\ result = TRUE

\* C26: the PRNG state is an unsigned 32-bit integer after construction and
\* after every call of next(), for any seed and any number of calls.
C26_StateIsUint32 == IsUint32(eng.state)

\* (31 * hash + c) mod 2^32 folded over the character codes of the label
RECURSIVE Fold31(_, _, _)
Fold31(hash, label, i) ==
  IF i > Len(label) THEN hash
  ELSE LET low == 31 * hash[2] + label[i]
       IN Fold31(<<(31 * hash[1] + low \div W16) % W16, low % W16>>, label, i + 1)

\* C27: hashSeed(master, label) returns, for every unsigned 32-bit master
\* and every label, a value in [0, 2^32) equal to the fold of
\* hash <- (31 * hash + c) mod 2^32 over the character codes of the label,
\* starting from hash = master.
C27_SubSeedFold ==
  (input # Null /\ input.fn = "hashSeed") =>
    /\ IsUint32(input.seed)
    /\ IsUint32(result)
    /\ result = Fold31(input.seed, input.label, 1)

\* hashSeed(0xFFFFFFFF, label) has returned a value of 2^31 or more for a
\* label of nine or more characters
C27_HighBitSubSeed ==
  /\ input # Null /\ input.fn = "hashSeed"
  /\ input.seed = <<65535, 65535>>
  /\ Len(input.label) >= 9
  /\ result[1] >= 32768

\* C28: buy_option sets the strike to currentPrice * (1 + d/100) for a call
\* and currentPrice * (1 - d/100) for a put, d being the entry of the
\* documented strike-distance table for (durationSeconds, multiplier):
\* 0.020 for 1 s / 2x, 1.880 for 1 s / 100x, 59.495 for 300 s / 100x.
C28_StrikeFromTable ==
  (input # Null /\ input.fn = "buy_option") =>
    LET a == input.action
        d == STRIKE_DISTANCES(a.durationSeconds, a.multiplier)
    IN /\ (a.durationSeconds = 1 /\ a.multiplier = 2) => d = 20
       /\ (a.durationSeconds = 1 /\ a.multiplier = 100) => d = 1880
       /\ (a.durationSeconds = 300 /\ a.multiplier = 100) => d = 59495
       /\ result.strikePrice =
            MulDiv(input.currentPrice,
                   IF a.direction = "call" THEN RATE + d * 10 ELSE RATE - d * 10, RATE)

\* C29: in processTick with a held position, liquidation is evaluated
\* against the new price with the funding accumulated before this tick's
\* accrual.  With equity = size + pnl - cumulativeFunding <= 0 and
\* shieldTicksRemaining > 0 the shield is decremented by exactly 1 and the
\* position survives and accrues funding; with equity <= 0 and no shield the
\* position is destroyed, houseBankroll increases by position.size,
\* totalLosses by totalCapitalInvested and liquidationCount by 1; with
\* equity > 0 the shield counter is not decremented.  (The amounts are those
\* of a tick on which no option expires.)
C29_LiquidationAndShield ==
  [][(last'.op = "tick" /\ eng.state.position # Null) =>
       LET st == eng.state
           pos == st.position
           after == eng'.state
           pnl == calculateLeveragedPnL(pos.entryPrice, after.currentPrice, pos.direction,
                                        pos.size, pos.leverage)
           equity == pos.size + pnl - pos.cumulativeFunding
           fundingCost == FundingCost(PositionNotional(st))
           quiet == \A i \in 1..Len(st.options) : st.options[i].ticksRemaining > 1
           survives == /\ after.position # Null
                       /\ after.position.cumulativeFunding = pos.cumulativeFunding + fundingCost
                       /\ after.liquidationCount = st.liquidationCount
                       /\ quiet => /\ after.houseBankroll = st.houseBankroll
                                   /\ after.totalLosses = st.totalLosses
       IN /\ (equity <= 0 /\ st.shieldTicksRemaining > 0)
               => /\ after.shieldTicksRemaining = st.shieldTicksRemaining - 1
                  /\ survives
          /\ (equity <= 0 /\ st.shieldTicksRemaining <= 0)
               => /\ after.position = Null
                  /\ after.liquidationCount = st.liquidationCount + 1
                  /\ quiet => /\ after.houseBankroll = st.houseBankroll + pos.size
                              /\ after.totalLosses = st.totalLosses + pos.totalCapitalInvested
          /\ equity > 0
               => /\ after.shieldTicksRemaining = st.shieldTicksRemaining
                  /\ survives
     ]_vars

\* a tick has burnt one shield tick of a position that lives on, in a session
\* that saw a liquidation before
C29_ShieldBurnt ==
  /\ last.op = "tick"
  /\ eng.state.position # Null
  /\ eng.state.shieldTicksRemaining = SHIELD_TICKS_PER_BUY - 1
  /\ eng.state.position.cumulativeFunding > 0
  /\ eng.state.liquidationCount = 1

\* C30: after a successful trigger_simple_turbo the price is unchanged until
\* the next tick; exactly the next 10 processTick calls take the turbo path;
\* after the 10th of them turboActive is false, turboTicksRemaining is 0 and
\* simpleTurbo is cleared; the 11th tick is a normal-path tick.
C30_TenTurboTicks ==
  ctl.triggered =>
    LET n == ctl.sinceTrigger
        st == eng.state
        ls == eng.state.layeredState
    IN /\ n = 0 => /\ st.currentPrice = st.simpleTurbo.startPrice
                   /\ ls.price = st.currentPrice
       /\ n <= 10 => /\ ctl.turboTicks = n
                     /\ ls.turboTicksRemaining = 10 - n
       /\ n < 10 => /\ ls.turboActive
                    /\ st.simpleTurbo # Null /\ st.simpleTurbo.active
       /\ n >= 10 => /\ ~ls.turboActive
                     /\ ls.turboTicksRemaining = 0
                     /\ st.simpleTurbo = Null
                     /\ ctl.turboTicks = 10

\* the 11th tick after a trigger has been processed
C30_EleventhTick ==
  /\ ctl.triggered
  /\ ctl.sinceTrigger = 11
  /\ ctl.turboTicks = 10
  /\ last.op = "tick"

\* the fields of the layered state that the turbo override spreads from the
\* old state and does not name
TurboSpreadFields(ls) ==
  <<ls.meanPrice, ls.momentum, ls.lastSign, ls.inVolatilitySpike, ls.turboDirection>>

\* C31 as stated: a turbo-path tick changes only price, turboTicksRemaining
\* and turboActive of the layered state; tick, meanPrice, momentum, lastSign,
\* inVolatilitySpike and turboDirection are left unchanged, and no generator
\* draws.
C31_TurboTickFrame ==
  [][(last'.op = "tick" /\ OnTurboPath(eng)) =>
       /\ eng'.state.layeredState.tick = eng.state.layeredState.tick
       /\ TurboSpreadFields(eng'.state.layeredState) = TurboSpreadFields(eng.state.layeredState)
       /\ eng'.rng = eng.rng]_vars

\* C31 as the code has it: a turbo-path tick changes only price, tick (which
\* it increments by one), turboTicksRemaining and turboActive of the layered
\* state; meanPrice, momentum, lastSign, inVolatilitySpike and turboDirection
\* are left unchanged, and no generator draws.
C31_TurboTickFrameCounted ==
  [][(last'.op = "tick" /\ OnTurboPath(eng)) =>
       /\ eng'.state.layeredState.tick = eng.state.layeredState.tick + 1
       /\ eng'.state.layeredState.turboTicksRemaining
            = eng.state.layeredState.turboTicksRemaining - 1
       /\ TurboSpreadFields(eng'.state.layeredState) = TurboSpreadFields(eng.state.layeredState)
       /\ eng'.rng = eng.rng]_vars

\* a turbo-path tick has run on a layered state that normal-path ticks had
\* moved before: the average differs from the price and the momentum is set
C31_TurboTickOnMovedState ==
  /\ last.op = "tick"
  /\ ctl.triggered /\ ctl.turboTicks >= 1 /\ ctl.sinceTrigger = ctl.turboTicks
  /\ eng.state.layeredState.tick > ctl.turboTicks
  /\ eng.state.layeredState.momentum # 0
  /\ eng.state.layeredState.lastSign # 0
  /\ eng.state.layeredState.meanPrice # eng.state.layeredState.price

\* the generators after a normal-path tick from g to h: one draw of the sign
\* stream (which decides lastSign), one of the magnitude stream, one of the
\* momentum stream, none of the turbo stream, and one of the volatility
\* stream followed by a second exactly when the first is below the spike
\* probability
NormalTickDraws(g, h) ==
  /\ h.rng.sign = RngAdvance(g.rng.sign)
  /\ h.ls.lastSign = IF RollOf(RngWord(RngAdvance(g.rng.sign))) < SignBias THEN 1 ELSE -1
  /\ h.rng.magnitude = RngAdvance(g.rng.magnitude)
  /\ h.rng.momentum = RngAdvance(g.rng.momentum)
  /\ h.rng.turbo = g.rng.turbo
  /\ h.rng.volatility =
       IF RollOf(RngWord(RngAdvance(g.rng.volatility))) < VolatilitySpikeProbability
       THEN RngAdvance(RngAdvance(g.rng.volatility))
       ELSE RngAdvance(g.rng.volatility)
  /\ ~g.ls.inVolatilitySpike
  /\ ~h.ls.inVolatilitySpike

LivePurchases ==
  LET StillRunning(b) ==
        eng.state.tickCount - b.tick < b.action.durationSeconds * TICKS_PER_SECOND
  IN SelectSeq(ctl.bought, StillRunning)

\* C33: an option bought with durationSeconds d stays in the options list for
\* exactly 10 * d processTick calls and is removed by the (10 * d)-th tick
\* after its purchase; every option in the list has
\* 0 < ticksRemaining <= totalTicks; surviving options keep their insertion
\* order.
C33_OptionLifetime ==
  /\ Len(eng.state.options) = Len(LivePurchases)
  /\ \A i \in 1..Len(eng.state.options) :
       LET option == eng.state.options[i]
           bought == LivePurchases[i]
       IN /\ option.direction = bought.action.direction
          /\ option.premium = bought.action.premium
          /\ option.multiplier = bought.action.multiplier
          /\ option.totalTicks = bought.action.durationSeconds * TICKS_PER_SECOND
          /\ option.ticksRemaining
               = option.totalTicks - (eng.state.tickCount - bought.tick)
          /\ 0 < option.ticksRemaining
          /\ option.ticksRemaining <= option.totalTicks

\* the 50th tick after its purchase has just removed a five-second option
\* that was bought first, and the option bought after it is still running
C33_FiveSecondOptionExpired ==
  /\ last.op = "tick"
  /\ Len(ctl.bought) = 2
  /\ ctl.bought[1].action.durationSeconds = 5
  /\ eng.state.tickCount = ctl.bought[1].tick + 50
  /\ Len(eng.state.options) = 1
  /\ eng.state.options[1].totalTicks = 3000
  /\ eng.state.options[1].ticksRemaining < 3000

\* whether the option, if it expires at price, is in the money as wanted
Settles(option, price, wanted) ==
  /\ option.ticksRemaining <= 1
  /\ wanted <=> IF option.direction = "call" THEN price >= option.strikePrice
                                              ELSE price <= option.strikePrice

\* the sum, over the options from index i on that expire at price in the
\* money or out of it as wanted, of the payout or of the premium
RECURSIVE SettledSum(_, _, _, _, _)
SettledSum(options, i, price, wanted, payout) ==
  IF i > Len(options) THEN 0
  ELSE (IF ~Settles(options[i], price, wanted) THEN 0
        ELSE IF payout THEN options[i].premium * options[i].multiplier
        ELSE options[i].premium)
       + SettledSum(options, i + 1, price, wanted, payout)

\* C34: an expiring option is settled against the new price of the tick in
\* which it expires: in the money (call: newPrice >= strike; put:
\* newPrice <= strike) capital increases by premium * multiplier and
\* houseBankroll decreases by premium * multiplier - premium; otherwise
\* capital is unchanged, houseBankroll increases by premium, totalLosses by
\* premium and turboPoints by premium * TURBO_LOSS_PREMIUM.
C34_OptionSettlement ==
  [][last'.op = "tick" =>
       LET before == eng.state
           after == eng'.state
           won == SettledSum(before.options, 1, after.currentPrice, TRUE, TRUE)
           stakes == SettledSum(before.options, 1, after.currentPrice, TRUE, FALSE)
           lost == SettledSum(before.options, 1, after.currentPrice, FALSE, FALSE)
       IN /\ after.capital = before.capital + won
          /\ after.houseBankroll = before.houseBankroll - (won - stakes) + lost
          /\ after.totalLosses = before.totalLosses + lost
          /\ after.turboPoints = before.turboPoints + MulDiv(lost, TURBO_LOSS_PREMIUM, RATE)]_vars

\* one tick has just settled two one-second options bought together, a call
\* and a put: one paid twice its premium, the other was lost to the house
C34_WonAndLost ==
  /\ last.op = "tick"
  /\ Len(ctl.bought) = 2
  /\ ctl.bought[1].tick = ctl.bought[2].tick
  /\ eng.state.tickCount = ctl.bought[1].tick + 10
  /\ eng.state.options = <<>>
  /\ eng.state.capital = Dollars(100)
  /\ eng.state.houseBankroll = Dollars(10000)
  /\ eng.state.totalLosses = Dollars(10)

\* max_tick of a replay without an expected tick count: the largest tick
\* number of the log plus 100, or 1000 for an empty log
HeuristicMaxTick(log) ==
  IF log = <<>> THEN 1000
  ELSE 100 + CHOOSE m \in {log[i].tickNumber : i \in 1..Len(log)} :
               \A i \in 1..Len(log) : log[i].tickNumber <= m

\* the tick number of the last action of the sorted log, 0 for an empty log
LastActionTick(sorted) ==
  IF sorted = <<>> THEN 0 ELSE sorted[Len(sorted)].tickNumber

\* a replay without an expected tick count stops before max_tick only once
\* all actions are consumed and ticksProcessed is more than 10 past the last
\* action; a log whose actions are all applied ends after last_tick + 11
\* ticks
HeuristicStop ==
  /\ ctl.ticksProcessed < HeuristicMaxTick(input.actionLog) =>
       /\ ctl.actionIndex = Len(ctl.sortedActions)
       /\ ctl.ticksProcessed > LastActionTick(ctl.sortedActions) + 10
  /\ ctl.actionIndex = Len(ctl.sortedActions) =>
       ctl.ticksProcessed = LastActionTick(ctl.sortedActions) + 11

\* C35 as stated: without an expected tick count replaySession returns with
\* ticksProcessed <= max_tick; it stops before max_tick only once all actions
\* have been consumed and ticksProcessed exceeds the last action's tick
\* number by more than 10, so that a log whose actions are all applied ends
\* after exactly last_tick + 11 ticks.
C35_HeuristicTermination ==
  (ctl.pc \in {"returned", "done"} /\ ~HasExpectedTickCount(input)) =>
    /\ ctl.ticksProcessed <= HeuristicMaxTick(input.actionLog)
    /\ HeuristicStop

\* C35 as the code has it: without an expected tick count replaySession
\* returns with ticksProcessed <= max(0, max_tick), and no tick is processed
\* when max_tick is not positive; otherwise it stops before max_tick only
\* once all actions have been consumed and ticksProcessed exceeds the last
\* action's tick number by more than 10, so that a log whose actions are all
\* applied ends after exactly last_tick + 11 ticks.
C35_HeuristicTerminationFromZero ==
  (ctl.pc \in {"returned", "done"} /\ ~HasExpectedTickCount(input)) =>
    IF HeuristicMaxTick(input.actionLog) <= 0
    THEN ctl.ticksProcessed = 0
    ELSE /\ ctl.ticksProcessed <= HeuristicMaxTick(input.actionLog)
         /\ HeuristicStop

\* a replay without an expected tick count has returned 11 ticks after the
\* close at tick 1, both actions of its log applied
C35_EndedElevenPastLast ==
  /\ ctl.pc = "returned"
  /\ input.expectedFinalState = Null
  /\ Len(input.actionLog) = 2
  /\ ctl.actionsExecuted = 2
  /\ LastActionTick(ctl.sortedActions) = 1
  /\ ctl.ticksProcessed = 12
  /\ eng.state.position = Null

\* the entries of the sorted log whose tick number t has 0 <= t < ticksProcessed
InRangeEntries ==
  {i \in 1..Len(ctl.sortedActions) :
     /\ 0 <= ctl.sortedActions[i].tickNumber
     /\ ctl.sortedActions[i].tickNumber < ctl.ticksProcessed}

\* C36: when replaySession returns, the entries it has passed to
\* executeAction, once each (the first actionIndex entries of the sorted
\* log), are exactly the entries whose tickNumber t has
\* 0 <= t < ticksProcessed, whatever other entries the log contains; hence
\* actionsExecuted plus the number of recorded had-no-effect actions equals
\* the number of such in-range entries.
C36_InRangeActionsExecuted ==
  ctl.pc \in {"returned", "done"} =>
    /\ InRangeEntries = 1..ctl.actionIndex
    /\ ctl.actionsExecuted + Len(ctl.actionErrors) = Cardinality(InRangeEntries)

\* C37: after every processTick and executeAction, simpleTurbo is present
\* and active if and only if layeredState.turboActive, and then
\* simpleTurbo.ticksRemaining = layeredState.turboTicksRemaining and
\* simpleTurbo.direction = layeredState.turboDirection.
C37_TurboMirror ==
  LET mirror == eng.state.simpleTurbo
      ls == eng.state.layeredState
  IN /\ (mirror # Null /\ mirror.active) <=> ls.turboActive
     /\ ls.turboActive => /\ mirror.ticksRemaining = ls.turboTicksRemaining
                          /\ mirror.direction = ls.turboDirection

\* the mirror of a downward turbo, six turbo ticks after its trigger
C37_DownwardTurboMirrored ==
  /\ last.op = "tick"
  /\ eng.state.simpleTurbo # Null
  /\ eng.state.simpleTurbo.direction = -1
  /\ eng.state.simpleTurbo.ticksRemaining = 4
  /\ eng.state.layeredState.turboTicksRemaining = 4
  /\ eng.state.currentPrice < eng.state.simpleTurbo.startPrice

\* the sum of the premiums of the options from index i on
RECURSIVE PremiumSum(_, _)
PremiumSum(options, i) ==
  IF i > Len(options) THEN 0 ELSE options[i].premium + PremiumSum(options, i + 1)

\* what player and house hold between them: the capital, the bankroll, the
\* size of the held position and the premiums of the live options
MoneyHeld(st) ==
  st.capital + st.houseBankroll
  + (IF st.position = Null THEN 0 ELSE st.position.size)
  + PremiumSum(st.options, 1)

\* C38: capital + houseBankroll + (size of the held position, if any) +
\* (sum of the premiums of the live options) has the same value after every
\* processTick and every executeAction as at session start
\* (initialCapital + initialHouseBankroll).
C38_MoneyConserved ==
  MoneyHeld(eng.state) = eng.config.initialCapital + eng.config.initialHouseBankroll

\* C39: while a position is held, position.totalFundingPaid is the sum of
\* the per-tick funding costs (size * leverage * FUNDING_RATE_PER_TICK)
\* charged since open_position: it starts at 0, every tick the position
\* survives adds that tick's funding cost, and relever and add_equity leave
\* it as it is.
C39_LifetimeFunding ==
  [][(eng'.state.position # Null /\ eng' # eng) =>
       LET pos == eng.state.position
           after == eng'.state.position
       IN CASE last'.op = "open_position" -> after.totalFundingPaid = 0
            [] last'.op = "tick" ->
                 after.totalFundingPaid
                   = pos.totalFundingPaid + FundingCost(MulDiv(pos.size, pos.leverage, MILLI))
            [] last'.op \in {"relever", "add_equity"} ->
                 after.totalFundingPaid = pos.totalFundingPaid
            [] OTHER -> after.totalFundingPaid = pos.totalFundingPaid]_vars

\* C40: from open_position until the position is closed or liquidated,
\* position.direction, position.originalEntryPrice and position.openTick
\* never change (ticks, relever and add_equity preserve them), and relever
\* leaves capital and position.totalCapitalInvested unchanged.
C40_PositionIdentityKept ==
  [][(eng.state.position # Null /\ eng'.state.position # Null) =>
       LET pos == eng.state.position
           after == eng'.state.position
       IN /\ after.direction = pos.direction
          /\ after.originalEntryPrice = pos.originalEntryPrice
          /\ after.openTick = pos.openTick
          /\ last'.op = "relever" =>
               /\ eng'.state.capital = eng.state.capital
               /\ after.totalCapitalInvested = pos.totalCapitalInvested]_vars

\* a relever has moved the entry price of a position opened before the
\* last tick to the current price, at another leverage and size
C40_ReleveredAwayFromOpen ==
  /\ last.op = "relever"
  /\ last.changed
  /\ eng.state.position.openTick < eng.state.tickCount
  /\ eng.state.position.entryPrice = eng.state.currentPrice
  /\ eng.state.position.entryPrice # eng.state.position.originalEntryPrice
  /\ eng.state.position.size # eng.state.position.totalCapitalInvested

====
